---- MODULE Spec2Model ----
(***************************************************************************)
(* Collector Runtime of logbook (packages/collector/src/server/            *)
(* collector-server.ts, current revision: the second copy in the file,     *)
(* lines 470-1615) together with the store adapter (db/database.ts).       *)
(*                                                                         *)
(* Execution model: Node's event loop.  Every action below is one          *)
(* run-to-completion block of JavaScript: an HTTP handler, a timer         *)
(* callback, a microtask, or the part of stopInternal between two awaits.  *)
(* db.insertEvents / deleteOlderThan / enforceMaxRows are synchronous      *)
(* (better-sqlite3), so a whole flush pass is one block.  Any store call   *)
(* may throw; which call throws is chosen by the environment (\E).         *)
(* Date.now() is the variable now; it is read once per block.              *)
(*                                                                         *)
(* Ghost state (not in the program, used to state properties): the field   *)
(* seq of an event (its admission ordinal), reply, persisted,              *)
(* queuedAtShutdown, queuedAtStop, failedSinceShutdown, failedBatch,       *)
(* stopInternalRuns, dbCloseCalls, appCloseCalls, lifecycleHistory.        *)
(*                                                                         *)
(* Further specifications over the same variables: LiveSpec (the runtime   *)
(* while it stays running, with fair flush triggers), RetrySpec and       *)
(* ShutdownSpec (the whole runtime with fair flush triggers, and with a    *)
(* fair close sequence), ConfigSpec (resolveCollectorConfig as a pure      *)
(* function), RedactSpec (redactEventPayload on payloads that are object   *)
(* graphs), LoggerSpec (the SDK's LogbookLogger, packages/sdk) and         *)
(* AdapterSpec (the SDK's React Native flush adapter).                     *)
(***************************************************************************)
EXTENDS Integers, Sequences, FiniteSets, TLC

(***************************************************************************)
(* Bounds of the model.  The configuration values are small stand-ins for  *)
(* the resolved CollectorConfig (any positive integer is a legal value).   *)
(***************************************************************************)
maxQueueSize == 2
flushBatchSize == 1
flushQueueThreshold == 2
maxRows == 2
retentionMs == 1
shutdownTimeoutMs == 1
MaxEvents == 3
MaxFaults == 1
\* The SDK logger: its queue cap, its batch size, and the number of log calls.
loggerMaxQueueSize == 2
loggerBatchSize == 1
MaxLogCalls == 4

MaxBatch == maxQueueSize + 1

NULL == 0 - 1

(***************************************************************************)
(* JSON values, as a closed sum type with one record shape.                *)
(***************************************************************************)
JUndefined == [t |-> "undefined", s |-> "", n |-> 0, keys |-> <<>>, kids |-> <<>>]
JString(s) == [t |-> "string", s |-> s, n |-> 0, keys |-> <<>>, kids |-> <<>>]
JNumber(n) == [t |-> "number", s |-> "", n |-> n, keys |-> <<>>, kids |-> <<>>]
JInfinity == [t |-> "number", s |-> "Infinity", n |-> 0, keys |-> <<>>, kids |-> <<>>]
\* A number with a fractional part: n + 1/2.
JHalf(n) == [t |-> "number", s |-> "half", n |-> n, keys |-> <<>>, kids |-> <<>>]
JArray(kids) == [t |-> "array", s |-> "", n |-> 0, keys |-> <<>>, kids |-> kids]
JObject(keys, kids) == [t |-> "object", s |-> "", n |-> 0, keys |-> keys, kids |-> kids]

REDACTED_VALUE == "[REDACTED]"
DEFAULT_REDACT_KEYS == {"email", "token", "authorization", "password"}
redactKeySet == DEFAULT_REDACT_KEYS

LOG_LEVELS == {"debug", "info", "warn", "error"}

\* Keys compared as they are written.
toLowerCase_Identity(key) == key

\* String.prototype.toLowerCase on the key alphabet of the model.
toLowerCase(key) ==
    CASE key = "Email" -> "email"
      [] key = "PASSWORD" -> "password"
      [] OTHER -> key

isPlainObject(value) == value.t = "object"

RECURSIVE redactValue(_, _)
redactValue(value, redactKeys) ==
    IF value.t = "array"
    THEN [value EXCEPT !.kids =
             [i \in DOMAIN value.kids |-> redactValue(value.kids[i], redactKeys)]]
    ELSE IF ~isPlainObject(value)
    THEN value
    ELSE [value EXCEPT !.kids =
             [i \in DOMAIN value.kids |->
                 IF toLowerCase(value.keys[i]) \in redactKeys
                 THEN JString(REDACTED_VALUE)
                 ELSE redactValue(value.kids[i], redactKeys)]]

redactEventPayload(event, redactKeys) ==
    IF event.payload = JUndefined \/ redactKeys = {}
    THEN event
    ELSE [event EXCEPT !.payload = redactValue(event.payload, redactKeys)]

\* JSON.stringify, as the sequence of tokens of the text it produces.
RECURSIVE stringify(_)
RECURSIVE stringifyItems(_, _, _)
stringifyItems(value, i, isObject) ==
    IF i > Len(value.kids)
    THEN <<>>
    ELSE (IF i > 1 THEN <<",">> ELSE <<>>)
         \o (IF isObject THEN <<value.keys[i], ":">> ELSE <<>>)
         \o stringify(value.kids[i])
         \o stringifyItems(value, i + 1, isObject)
stringify(value) ==
    CASE value.t = "object" -> <<"{">> \o stringifyItems(value, 1, TRUE) \o <<"}">>
      [] value.t = "array" -> <<"[">> \o stringifyItems(value, 1, FALSE) \o <<"]">>
      [] value.t = "number" /\ value.s = "" -> <<ToString(value.n)>>
      [] OTHER -> <<value.s>>

serializePayload(payload) ==
    IF payload = JUndefined THEN <<>> ELSE stringify(payload)

(***************************************************************************)
(* Request bodies of POST /ingest: parsed JSON, a single candidate or an   *)
(* array of candidates.                                                    *)
(***************************************************************************)
optionalStringKeys == {"deviceId", "sessionId", "flowId", "screen", "msg"}
NoOptionalKeys == [k \in optionalStringKeys |-> JUndefined]

SecretPayload ==
    JObject(<<"Email", "nested", "list">>,
            <<JString("a@b.com"),
              JObject(<<"PASSWORD", "safe">>, <<JString("x"), JString("ok")>>),
              JArray(<<JObject(<<"token", "n">>, <<JString("t"), JNumber(5)>>)>>)>>)

Candidate(isRec, ts, level, name, opt, payload) ==
    [isRecord |-> isRec, ts |-> ts, level |-> level, name |-> name,
     opt |-> opt, payload |-> payload]

GoodOld == Candidate(TRUE, JNumber(0 - retentionMs - 1), JString("info"), JString("app.start"),
                     [NoOptionalKeys EXCEPT !["msg"] = JString("hello")], SecretPayload)
GoodNew == Candidate(TRUE, JNumber(1), JString("error"), JString("app.crash"),
                     NoOptionalKeys, JUndefined)
NotAnObject == Candidate(FALSE, JUndefined, JUndefined, JUndefined,
                         NoOptionalKeys, JUndefined)
MissingTs == Candidate(TRUE, JUndefined, JString("info"), JString("demo.missing_ts"),
                       NoOptionalKeys, JUndefined)
InfiniteTs == Candidate(TRUE, JInfinity, JString("info"), JString("app.start"),
                        NoOptionalKeys, JUndefined)
BadLevel == Candidate(TRUE, JNumber(1), JString("fatal"), JString("app.start"),
                      NoOptionalKeys, JUndefined)
EmptyName == Candidate(TRUE, JNumber(1), JString("warn"), JString(""),
                       NoOptionalKeys, JUndefined)
NumericMsg == Candidate(TRUE, JNumber(1), JString("debug"), JString("app.start"),
                        [NoOptionalKeys EXCEPT !["msg"] = JNumber(7)], SecretPayload)

ValidCandidates == {GoodOld, GoodNew}
InvalidCandidates == {NotAnObject, MissingTs, InfiniteTs, BadLevel, EmptyName, NumericMsg}

\* The body holds a candidate that the data model rejects.
HasMalformedCandidate(body) ==
    \E i \in DOMAIN body.items : body.items[i] \in InvalidCandidates

\* A batch of k valid events.  In the batch of two the timestamps fall in
\* submission order (2, then 1), so that the order by timestamp differs from the
\* order of arrival; all other events have ts 1.
Descending(k) ==
    [i \in 1..k |-> [GoodNew EXCEPT !.ts = JNumber(IF i = 1 /\ k = 2 THEN 2 ELSE 1)]]

\* Single candidates: a valid one and every kind of malformed one.  Arrays: one
\* of every length up to MaxBatch of valid events, and a malformed element after
\* a valid one.
Bodies ==
    {[isArray |-> FALSE, items |-> <<c>>] : c \in {GoodOld} \cup InvalidCandidates}
    \cup {[isArray |-> TRUE, items |-> Descending(k)] : k \in 0..MaxBatch}
    \cup {[isArray |-> TRUE, items |-> <<GoodNew, MissingTs>>]}

isLogLevel(value) == value.t = "string" /\ value.s \in LOG_LEVELS

\* parseEvent: the first failing check decides the error.
parseEvent(input) ==
    LET bad(msg) == [ok |-> FALSE, error |-> msg, event |-> <<>>]
    IN  IF ~input.isRecord THEN bad("Event must be a JSON object.")
        ELSE IF ~(input.ts.t = "number" /\ input.ts.s = "")
        THEN bad("ts must be a finite number.")
        ELSE IF ~isLogLevel(input.level)
        THEN bad("level must be one of debug, info, warn, error.")
        ELSE IF ~(input.name.t = "string" /\ input.name.s # "")
        THEN bad("name must be a non-empty string.")
        ELSE IF \E k \in optionalStringKeys : input.opt[k].t \notin {"undefined", "string"}
        THEN bad("optional key must be a string when provided.")
        ELSE [ok |-> TRUE, error |-> "",
              event |-> <<[seq |-> 0, ts |-> input.ts.n, level |-> input.level.s,
                           name |-> input.name.s, opt |-> input.opt,
                           payload |-> input.payload]>>]

\* A parser that leaves the malformed candidates out and accepts the rest.
parseIngestBody_SkipsInvalid(body) ==
    LET valid == SelectSeq(body.items, LAMBDA c : parseEvent(c).ok)
    IN  [ok |-> TRUE, events |-> [i \in DOMAIN valid |-> parseEvent(valid[i]).event[1]],
         index |-> NULL]

\* parseIngestBody: all candidates are parsed before anything is enqueued; the
\* error of an array names the index (from 0) of its first malformed candidate.
parseIngestBody(body) ==
    LET parsed == [i \in DOMAIN body.items |-> parseEvent(body.items[i])]
        invalid == {i \in DOMAIN body.items : ~parsed[i].ok}
        first == CHOOSE i \in invalid : \A j \in invalid : i <= j
    IN  IF invalid # {}
        THEN [ok |-> FALSE, events |-> <<>>,
              index |-> IF body.isArray THEN first - 1 ELSE NULL]
        ELSE [ok |-> TRUE, events |-> [i \in DOMAIN body.items |-> parsed[i].event[1]],
              index |-> NULL]

(***************************************************************************)
(* State of CollectorRuntime, of the store, and of the event loop.         *)
(***************************************************************************)
VARIABLES
    lifecycleState,              \* "running" | "stopping" | "stopped"
    queue,                       \* LogEvent[]
    stats,                       \* QueueStats
    flushTimer, retentionTimer,  \* TRUE while the interval is armed
    flushInProgress,
    shutdownStartedAtMs, lastSuccessfulFlushAtMs, lastSuccessfulRetentionAtMs,
    lastFlushError, lastRetentionError,      \* NULL or the summary's atMs
    stopPromise,                 \* "null" | "pending" | "resolved"
    closePromise,                \* NULL or the id of the promise of app.close()
    db,                          \* [rows, nextId, open]
    now,                         \* Date.now()
    flushScheduled,              \* a queueMicrotask(flush) is pending
    stopPc, deadline, before, sleepFrom,     \* position and locals of stopInternal
    reply,                       \* ghost: what the last call returned
    persisted,                   \* ghost: seq of every event ever inserted
    queuedAtShutdown, queuedAtStop, failedSinceShutdown,   \* ghost
    failedBatch,                 \* ghost: seq of the batch whose insert threw last
    stopInternalRuns, dbCloseCalls, appCloseCalls,         \* ghost
    lifecycleHistory,            \* ghost: every value lifecycleState was assigned
    resolution,                  \* the last call of resolveCollectorConfig and its result
    logger,                      \* the SDK's LogbookLogger (a client of the collector)
    redaction,                   \* one call of redactEventPayload, step by step
    adapter                      \* the SDK's React Native flush adapter

runtimeVars == <<lifecycleState, queue, stats, flushTimer, retentionTimer,
                 flushInProgress, shutdownStartedAtMs, lastSuccessfulFlushAtMs,
                 lastSuccessfulRetentionAtMs, lastFlushError, lastRetentionError,
                 stopPromise>>
loopVars == <<closePromise, db, now, flushScheduled, stopPc, deadline, before, sleepFrom>>
ghostVars == <<reply, persisted, queuedAtShutdown, queuedAtStop,
               failedSinceShutdown, failedBatch, stopInternalRuns, dbCloseCalls,
               appCloseCalls, lifecycleHistory>>
loopVarsButDb == <<closePromise, now, flushScheduled, stopPc, deadline, before, sleepFrom>>
\* State outside the runtime: the runtime's callbacks leave it alone.
otherVars == <<resolution, logger, redaction, adapter>>
vars == <<runtimeVars, loopVars, ghostVars, otherVars>>

Min(a, b) == IF a < b THEN a ELSE b
Max(a, b) == IF a > b THEN a ELSE b
Seqs(q) == {q[i].seq : i \in DOMAIN q}

\* What the last call returned: op names the call ("none" after a step that
\* answers nobody), n and q are the batch size and the queue length it found
\* (for a completed retention sweep: the rows deleted by age and by count),
\* index is the position the 400 error message names ("Event at index ..."),
\* malformed tells whether the body of the request held a malformed candidate.
Reply(op, status, accepted, dropped, queueLength) ==
    [op |-> op, status |-> status, accepted |-> accepted, dropped |-> dropped,
     queueLength |-> queueLength, n |-> 0, q |-> 0, promise |-> NULL,
     index |-> NULL, malformed |-> FALSE]
\* A promise handed to a caller.
Promise(op, id) == [Reply(op, 0, 0, 0, 0) EXCEPT !.promise = id]
NoReply == Reply("none", 0, 0, 0, 0)

\* The logger after its constructor: empty queue, interval timer armed.  inFlight
\* is the length of the batch handed to sendBatch (NULL: no send is awaited);
\* ghost: logCalls counts the log calls (the ordinal of the next event), call and
\* name record the last call, refused / accepted whether the endpoint has refused
\* or accepted a batch.
NewLogger ==
    [queue |-> <<>>, stopped |-> FALSE, flushInProgress |-> FALSE, timer |-> TRUE,
     inFlight |-> NULL, logCalls |-> 0, call |-> "none", name |-> "",
     refused |-> FALSE, accepted |-> FALSE,
     batch |-> <<>>, delivered |-> {}, kept |-> {}]

\* resolveCollectorConfig has not been called.
NoResolution == [called |-> FALSE]
NoRedaction == [pc |-> "idle"]
NoAdapter == [attached |-> FALSE]

Init ==
    /\ lifecycleState = "running"
    /\ queue = <<>>
    /\ stats = [droppedEvents |-> 0, shutdownDroppedEvents |-> 0, acceptedEvents |-> 0,
                flushFailures |-> 0, retentionFailures |-> 0]
    /\ flushTimer = TRUE
    /\ retentionTimer = TRUE
    /\ flushInProgress = FALSE
    /\ shutdownStartedAtMs = NULL
    /\ lastSuccessfulFlushAtMs = NULL
    /\ lastSuccessfulRetentionAtMs = NULL
    /\ lastFlushError = NULL
    /\ lastRetentionError = NULL
    /\ stopPromise = "null"
    /\ closePromise = NULL
    /\ db = [rows |-> <<>>, nextId |-> 1, open |-> TRUE]
    /\ now = 0
    /\ flushScheduled = FALSE
    /\ stopPc = "idle"
    /\ deadline = NULL
    /\ before = 0
    /\ sleepFrom = NULL
    /\ reply = NoReply
    /\ persisted = {}
    /\ queuedAtShutdown = {}
    /\ queuedAtStop = {}
    /\ failedSinceShutdown = FALSE
    /\ failedBatch = {}
    /\ stopInternalRuns = 0
    /\ dbCloseCalls = 0
    /\ appCloseCalls = 0
    /\ lifecycleHistory = <<"running">>
    /\ resolution = NoResolution
    /\ logger = NewLogger
    /\ redaction = NoRedaction
    /\ adapter = NoAdapter

\* No microtask is pending: the event loop may start the next macrotask.
MacrotaskMayRun == ~flushScheduled /\ stopPc # "afterFlush"

(***************************************************************************)
(* Store adapter (db/database.ts).                                         *)
(***************************************************************************)
toInsertParams(event) ==
    [seq |-> event.seq, ts |-> event.ts, level |-> event.level, name |-> event.name,
     opt |-> event.opt, payloadJson |-> serializePayload(event.payload)]

\* An insert that reports success and stores nothing.
insertEvents_StoresNothing(d, events) == [d EXCEPT !.nextId = @ + Len(events)]

\* insertEventsTx: one transaction; ids are assigned in batch order.
insertEvents(d, events) ==
    [d EXCEPT
        !.rows = @ \o [i \in DOMAIN events |->
                          [id |-> d.nextId + i - 1, row |-> toInsertParams(events[i])]],
        !.nextId = @ + Len(events)]

\* An age step that deletes nothing.
deleteOlderThan_Nothing(d, tsMs) == d

deleteOlderThan(d, tsMs) ==
    [d EXCEPT !.rows = SelectSeq(@, LAMBDA r : ~(r.row.ts < tsMs))]

\* The order of insertion alone.
rowBefore_ById(r1, r2) == r1.id < r2.id

\* r1 precedes r2 in ORDER BY ts ASC, id ASC
rowBefore(r1, r2) == r1.row.ts < r2.row.ts \/ (r1.row.ts = r2.row.ts /\ r1.id < r2.id)

rank(rows, r) == Cardinality({j \in DOMAIN rows : rowBefore(rows[j], r)})

enforceMaxRows(d, limit) ==
    LET currentCount == Len(d.rows)
    IN  IF currentCount <= limit
        THEN d
        ELSE [d EXCEPT !.rows =
                 SelectSeq(@, LAMBDA r : ~(rank(d.rows, r) < currentCount - limit))]

getTotalEventsCount(d) == Len(d.rows)

(***************************************************************************)
(* CollectorRuntime                                                        *)
(***************************************************************************)
\* Ingest is refused only once the runtime has stopped.
isAcceptingIngest_UntilStopped == lifecycleState # "stopped"

\* Ingest is never refused.
isAcceptingIngest_Always == TRUE

isAcceptingIngest == lifecycleState = "running"

\* The cap is tested one entry too late.
queueIsFull_OneLate(q) == Len(q) > maxQueueSize

queueIsFull(q) == Len(q) >= maxQueueSize

\* Drop-newest: at the cap the incoming event is the one rejected.
enqueueOne_DropNewest(st, rawEvent) ==
    LET event == redactEventPayload(rawEvent, redactKeySet)
        full == queueIsFull(st.queue)
    IN  [queue |-> IF full THEN st.queue
                   ELSE st.queue \o <<[event EXCEPT !.seq = st.acceptedEvents + 1]>>,
         droppedEvents |-> st.droppedEvents + (IF full THEN 1 ELSE 0),
         acceptedEvents |-> st.acceptedEvents + 1]

\* Evictions that are not counted.
enqueueOne_Uncounted(st, rawEvent) ==
    LET event == redactEventPayload(rawEvent, redactKeySet)
        full == queueIsFull(st.queue)
    IN  [queue |-> (IF full THEN Tail(st.queue) ELSE st.queue)
                   \o <<[event EXCEPT !.seq = st.acceptedEvents + 1]>>,
         droppedEvents |-> st.droppedEvents,
         acceptedEvents |-> st.acceptedEvents + 1]

\* The incoming event is put at the head of the queue.
enqueueOne_Unshift(st, rawEvent) ==
    LET event == redactEventPayload(rawEvent, redactKeySet)
        full == queueIsFull(st.queue)
    IN  [queue |-> <<[event EXCEPT !.seq = st.acceptedEvents + 1]>>
                   \o (IF full THEN Tail(st.queue) ELSE st.queue),
         droppedEvents |-> st.droppedEvents + (IF full THEN 1 ELSE 0),
         acceptedEvents |-> st.acceptedEvents + 1]

\* An event that evicts the head is not counted as accepted.
enqueueOne_EvictionNotAccepted(st, rawEvent) ==
    LET event == redactEventPayload(rawEvent, redactKeySet)
        full == queueIsFull(st.queue)
    IN  [queue |-> (IF full THEN Tail(st.queue) ELSE st.queue)
                   \o <<[event EXCEPT !.seq = st.acceptedEvents + 1]>>,
         droppedEvents |-> st.droppedEvents + (IF full THEN 1 ELSE 0),
         acceptedEvents |-> st.acceptedEvents + (IF full THEN 0 ELSE 1)]

\* One iteration of the loop of enqueue: redact, evict the head at the cap, push.
enqueueOne(st, rawEvent) ==
    LET event == redactEventPayload(rawEvent, redactKeySet)
        full == queueIsFull(st.queue)
    IN  [queue |-> (IF full THEN Tail(st.queue) ELSE st.queue)
                   \o <<[event EXCEPT !.seq = st.acceptedEvents + 1]>>,
         droppedEvents |-> st.droppedEvents + (IF full THEN 1 ELSE 0),
         acceptedEvents |-> st.acceptedEvents + 1]

RECURSIVE enqueueLoop(_, _, _)
enqueueLoop(st, events, i) ==
    IF i > Len(events) THEN st ELSE enqueueLoop(enqueueOne(st, events[i]), events, i + 1)

\* A threshold that must be exceeded, not reached.
reachedFlushThreshold_Exceeded(q) == Len(q) > flushQueueThreshold

reachedFlushThreshold(q) == Len(q) >= flushQueueThreshold

\* An enqueue that reports the evictions of this call instead of the counter.
enqueue_PerCallDropped(events) ==
    LET st == enqueueLoop([queue |-> queue, droppedEvents |-> stats.droppedEvents,
                           acceptedEvents |-> stats.acceptedEvents], events, 1)
    IN  IF ~isAcceptingIngest
        THEN [queue |-> queue, stats |-> stats, schedule |-> FALSE,
              accepted |-> 0, dropped |-> 0]
        ELSE [queue |-> st.queue,
              stats |-> [stats EXCEPT !.droppedEvents = st.droppedEvents,
                                      !.acceptedEvents = st.acceptedEvents],
              schedule |-> reachedFlushThreshold(st.queue),
              accepted |-> Len(events),
              dropped |-> st.droppedEvents - stats.droppedEvents]

\* enqueue(events): state after the call and the value it returns.
enqueue(events) ==
    IF ~isAcceptingIngest
    THEN [queue |-> queue, stats |-> stats, schedule |-> FALSE,
          accepted |-> 0, dropped |-> stats.droppedEvents]
    ELSE LET st == enqueueLoop([queue |-> queue, droppedEvents |-> stats.droppedEvents,
                                acceptedEvents |-> stats.acceptedEvents], events, 1)
         IN  [queue |-> st.queue,
              stats |-> [stats EXCEPT !.droppedEvents = st.droppedEvents,
                                      !.acceptedEvents = st.acceptedEvents],
              schedule |-> reachedFlushThreshold(st.queue),
              accepted |-> Len(events), dropped |-> st.droppedEvents]

\* beginShutdown() returning at once in every state.
beginShutdownGuard_Always == TRUE

beginShutdownGuard == lifecycleState # "running"

\* A beginShutdown() that stamps the time again on every later call.
beginShutdown_Restamps ==
    IF beginShutdownGuard
    THEN [lifecycleState |-> lifecycleState, shutdownStartedAtMs |-> now]
    ELSE [lifecycleState |-> "stopping", shutdownStartedAtMs |-> now]

\* beginShutdown(): the values of lifecycleState and shutdownStartedAtMs after it.
beginShutdown ==
    IF beginShutdownGuard
    THEN [lifecycleState |-> lifecycleState, shutdownStartedAtMs |-> shutdownStartedAtMs]
    ELSE [lifecycleState |-> "stopping", shutdownStartedAtMs |-> now]

\* The assignments to lifecycleState so far, after a call of beginShutdown().
historyAfterBeginShutdown ==
    IF beginShutdownGuard
    THEN lifecycleHistory
    ELSE Append(lifecycleHistory, beginShutdown.lifecycleState)

\* The assignments so far, after the last statements of stopInternal have run
\* (when this step runs them): h is the history the step had before them.
historyAfterStopInternal(h) ==
    IF stopPc' = "done" THEN Append(h, "stopped") ELSE h

\* A flush() that returns at once whenever it is called.
flushReturnsEarly_Always == TRUE

\* A flush() that gives up once an error has been recorded.
flushReturnsEarly_AfterError ==
    flushInProgress \/ Len(queue) = 0 \/ lifecycleState = "stopped"
        \/ lastFlushError # NULL

\* The early return of flush().
flushReturnsEarly ==
    flushInProgress \/ Len(queue) = 0 \/ lifecycleState = "stopped"

flushBatch(q) == SubSeq(q, 1, Min(flushBatchSize, Len(q)))

RECURSIVE flushLoop(_, _)

\* The loop without `this.lastFlushError = null`: a successful write leaves an
\* earlier error summary in place.
flushLoop_KeepsError(st, failAt) ==
    IF ~(Len(st.queue) > 0)
    THEN st
    ELSE IF st.writes + 1 = failAt
    THEN [st EXCEPT !.threw = TRUE]
    ELSE flushLoop([st EXCEPT
                      !.db = insertEvents(@, flushBatch(st.queue)),
                      !.queue = SubSeq(@, Len(flushBatch(@)) + 1, Len(@)),
                      !.lastSuccessfulFlushAtMs = now,
                      !.writes = @ + 1,
                      !.written = @ \cup Seqs(flushBatch(st.queue))], failAt)

\* The loop with the splice moved before the insert: the batch whose insert throws
\* has already left the queue.
flushLoop_SpliceBeforeInsert(st, failAt) ==
    IF ~(Len(st.queue) > 0)
    THEN st
    ELSE IF st.writes + 1 = failAt
    THEN [st EXCEPT !.threw = TRUE,
                    !.queue = SubSeq(@, Len(flushBatch(@)) + 1, Len(@))]
    ELSE flushLoop([st EXCEPT
                      !.db = insertEvents(@, flushBatch(st.queue)),
                      !.queue = SubSeq(@, Len(flushBatch(@)) + 1, Len(@)),
                      !.lastSuccessfulFlushAtMs = now,
                      !.lastFlushError = NULL,
                      !.writes = @ + 1,
                      !.written = @ \cup Seqs(flushBatch(st.queue))], failAt)

\* An insert that throws after its transaction has been committed: the batch
\* is in the store and stays queued.
flushLoop_NoRollback(st, failAt) ==
    IF ~(Len(st.queue) > 0)
    THEN st
    ELSE IF st.writes + 1 = failAt
    THEN [st EXCEPT !.threw = TRUE,
                    !.db = insertEvents(@, flushBatch(st.queue)),
                    !.written = @ \cup Seqs(flushBatch(st.queue))]
    ELSE flushLoop([st EXCEPT
                      !.db = insertEvents(@, flushBatch(st.queue)),
                      !.queue = SubSeq(@, Len(flushBatch(@)) + 1, Len(@)),
                      !.lastSuccessfulFlushAtMs = now,
                      !.lastFlushError = NULL,
                      !.writes = @ + 1,
                      !.written = @ \cup Seqs(flushBatch(st.queue))], failAt)

\* The while loop of flush().  failAt = 0: no insert throws; failAt = j: the
\* j-th insert of the pass throws (the transaction rolls back, the loop is left).
\* The batch and the state of the next round are bound through singleton sets, so
\* that each is evaluated once.
flushLoop(st, failAt) ==
    IF ~(Len(st.queue) > 0)
    THEN st
    ELSE IF st.writes + 1 = failAt
    THEN [st EXCEPT !.threw = TRUE]
    ELSE CHOOSE result \in
             {flushLoop(next, failAt) :
                 next \in {[st EXCEPT
                              !.db = insertEvents(@, batch),
                              !.queue = SubSeq(@, Len(batch) + 1, Len(@)),
                              !.lastSuccessfulFlushAtMs = now,
                              !.lastFlushError = NULL,
                              !.writes = @ + 1,
                              !.written = @ \cup Seqs(batch)] :
                            batch \in {flushBatch(st.queue)}}} : TRUE

\* The environment makes at most MaxFaults store calls throw on an open store.
MayFault == stats.flushFailures + stats.retentionFailures < MaxFaults

\* The choices of the environment for one pass.
FailChoices ==
    IF ~db.open
    THEN {1}
    ELSE {0} \cup (IF MayFault
                   THEN 1..((Len(queue) + flushBatchSize - 1) \div flushBatchSize)
                   ELSE {})

\* An error summary that records nothing.
summarizeError_Null == NULL

\* summarizeError(error): { atMs: Date.now(), message }; the model keeps atMs.
summarizeError == now

\* A flag cleared on the successful path only (no finally block).
flushFinally_OnlyOnSuccess(threw) == threw

\* finally { this.flushInProgress = false }: on both paths.
flushFinally(threw) == FALSE

\* flush(): one whole drain pass (it contains no await).
Flush(failAt, shutdownBegun) ==
    IF flushReturnsEarly
    THEN UNCHANGED <<queue, db, lastSuccessfulFlushAtMs, lastFlushError, stats,
                     flushInProgress, persisted, failedSinceShutdown, failedBatch>>
    ELSE \E st \in {flushLoop([queue |-> queue, db |-> db,
                              lastSuccessfulFlushAtMs |-> lastSuccessfulFlushAtMs,
                              lastFlushError |-> lastFlushError,
                              writes |-> 0, written |-> {}, threw |-> FALSE], failAt)} :
             /\ queue' = st.queue
             /\ db' = st.db
             /\ lastSuccessfulFlushAtMs' = st.lastSuccessfulFlushAtMs
             /\ lastFlushError' = IF st.threw THEN summarizeError ELSE st.lastFlushError
             /\ stats' = IF st.threw THEN [stats EXCEPT !.flushFailures = @ + 1] ELSE stats
             /\ flushInProgress' = flushFinally(st.threw)
             /\ persisted' = persisted \cup st.written
             /\ failedSinceShutdown' =
                    (failedSinceShutdown \/ (st.threw /\ shutdownBegun))
             /\ failedBatch' = IF st.threw THEN Seqs(flushBatch(st.queue))
                               ELSE failedBatch

\* The interval callback of flushTimer.
FlushTick ==
    /\ MacrotaskMayRun
    /\ UNCHANGED otherVars
    /\ UNCHANGED lifecycleHistory
    /\ flushTimer
    /\ \E failAt \in FailChoices : Flush(failAt, lifecycleState # "running")
    /\ reply' = NoReply
    /\ UNCHANGED <<lifecycleState, flushTimer, retentionTimer, shutdownStartedAtMs,
                   lastSuccessfulRetentionAtMs, lastRetentionError, stopPromise,
                   loopVarsButDb, queuedAtShutdown, queuedAtStop,
                   stopInternalRuns, dbCloseCalls, appCloseCalls>>

\* The microtask queued by enqueue at the threshold.
FlushMicrotask ==
    /\ flushScheduled
    /\ UNCHANGED otherVars
    /\ UNCHANGED lifecycleHistory
    /\ \E failAt \in FailChoices : Flush(failAt, lifecycleState # "running")
    /\ flushScheduled' = FALSE
    /\ reply' = NoReply
    /\ UNCHANGED <<lifecycleState, flushTimer, retentionTimer, shutdownStartedAtMs,
                   lastSuccessfulRetentionAtMs, lastRetentionError, stopPromise,
                   closePromise, now, stopPc, deadline, before, sleepFrom,
                   queuedAtShutdown, queuedAtStop,
                   stopInternalRuns, dbCloseCalls, appCloseCalls>>

\* runRetention(): the environment chooses which store call throws, if any.
RetentionChoices ==
    IF ~db.open
    THEN {"deleteOlderThan"}
    ELSE {"none"} \cup (IF MayFault
                        THEN {"deleteOlderThan", "enforceMaxRows"}
                        ELSE {})

retentionCutoffMs == now - retentionMs

\* A sweep whose failure forgets the last successful one.
runRetention_ForgetsSuccess(throwAt) ==
    LET aged == deleteOlderThan(db, retentionCutoffMs)
    IN  /\ db' = CASE throwAt = "deleteOlderThan" -> db
                   [] throwAt = "enforceMaxRows" -> aged
                   [] OTHER -> enforceMaxRows(aged, maxRows)
        /\ lastSuccessfulRetentionAtMs' =
               IF throwAt = "none" THEN now ELSE NULL
        /\ lastRetentionError' = IF throwAt = "none" THEN NULL ELSE summarizeError
        /\ stats' = IF throwAt = "none"
                    THEN stats
                    ELSE [stats EXCEPT !.retentionFailures = @ + 1]

\* What the two store calls of a sweep return: the rows each deleted.
deletedByAge == Len(db.rows) - Len(deleteOlderThan(db, retentionCutoffMs).rows)
deletedByMax ==
    LET aged == deleteOlderThan(db, retentionCutoffMs)
    IN  Len(aged.rows) - Len(enforceMaxRows(aged, maxRows).rows)

runRetention(throwAt) ==
    LET aged == deleteOlderThan(db, retentionCutoffMs)
    IN  /\ db' = CASE throwAt = "deleteOlderThan" -> db
                   [] throwAt = "enforceMaxRows" -> aged
                   [] OTHER -> enforceMaxRows(aged, maxRows)
        /\ lastSuccessfulRetentionAtMs' =
               IF throwAt = "none" THEN now ELSE lastSuccessfulRetentionAtMs
        /\ lastRetentionError' = IF throwAt = "none" THEN NULL ELSE summarizeError
        /\ stats' = IF throwAt = "none"
                    THEN stats
                    ELSE [stats EXCEPT !.retentionFailures = @ + 1]

\* The interval callback of retentionTimer.
RetentionTick ==
    /\ MacrotaskMayRun
    /\ UNCHANGED otherVars
    /\ UNCHANGED lifecycleHistory
    /\ retentionTimer
    /\ \E throwAt \in RetentionChoices :
          /\ runRetention(throwAt)
          /\ reply' = IF throwAt = "none"
                      THEN [Reply("retention", 0, 0, 0, 0)
                            EXCEPT !.n = deletedByAge, !.q = deletedByMax]
                      ELSE NoReply
    /\ UNCHANGED <<lifecycleState, queue, flushTimer, retentionTimer, flushInProgress,
                   shutdownStartedAtMs, lastSuccessfulFlushAtMs, lastFlushError,
                   stopPromise, loopVarsButDb, persisted, queuedAtShutdown,
                   queuedAtStop, failedSinceShutdown, failedBatch, stopInternalRuns, dbCloseCalls,
                   appCloseCalls>>

\* POST /ingest.  countThrows: db.getTotalEventsCount(), which the handler calls
\* through getHealth() for the response, throws.
PostIngest(body) ==
    /\ MacrotaskMayRun
    /\ UNCHANGED otherVars
    /\ UNCHANGED lifecycleHistory
    /\ IF ~isAcceptingIngest
       THEN /\ reply' = [Reply("ingest", 503, 0, 0, 0)
                          EXCEPT !.malformed = HasMalformedCandidate(body)]
            /\ UNCHANGED <<queue, stats, flushScheduled>>
       ELSE LET parsed == parseIngestBody(body)
            IN  IF ~parsed.ok
                THEN /\ reply' = [Reply("ingest", 400, 0, 0, 0)
                                   EXCEPT !.index = parsed.index,
                                          !.malformed = HasMalformedCandidate(body)]
                     /\ UNCHANGED <<queue, stats, flushScheduled>>
                ELSE LET result == enqueue(parsed.events)
                     IN  /\ stats.acceptedEvents + Len(parsed.events) <= MaxEvents
                         /\ queue' = result.queue
                         /\ stats' = result.stats
                         /\ flushScheduled' = result.schedule
                         /\ \E countThrows \in {~db.open, TRUE} :
                              reply' = [(IF countThrows
                                         THEN Reply("ingest", 500, 0, 0, 0)
                                         ELSE Reply("ingest", 202, result.accepted,
                                                    result.dropped, Len(result.queue)))
                                        EXCEPT !.n = Len(parsed.events),
                                               !.q = Len(queue),
                                               !.malformed = HasMalformedCandidate(body)]
    /\ UNCHANGED <<lifecycleState, flushTimer, retentionTimer, flushInProgress,
                   shutdownStartedAtMs, lastSuccessfulFlushAtMs,
                   lastSuccessfulRetentionAtMs, lastFlushError, lastRetentionError,
                   stopPromise, closePromise, db, now, stopPc, deadline, before,
                   sleepFrom, persisted, queuedAtShutdown, queuedAtStop,
                   failedSinceShutdown, failedBatch, stopInternalRuns, dbCloseCalls, appCloseCalls>>

\* runtime.enqueue(events) reached without the handler's own check, once the
\* runtime has left "running" (while running, Ingest makes this very call).
EnqueueCall(events) ==
    /\ MacrotaskMayRun
    /\ UNCHANGED otherVars
    /\ UNCHANGED lifecycleHistory
    /\ lifecycleState # "running"
    /\ stats.acceptedEvents + Len(events) <= MaxEvents
    /\ LET result == enqueue(events)
       IN  /\ queue' = result.queue
           /\ stats' = result.stats
           /\ flushScheduled' = result.schedule
           /\ reply' = [Reply("enqueue", 0, result.accepted, result.dropped, 0)
                      EXCEPT !.n = Len(events), !.q = Len(queue)]
    /\ UNCHANGED <<lifecycleState, flushTimer, retentionTimer, flushInProgress,
                   shutdownStartedAtMs, lastSuccessfulFlushAtMs,
                   lastSuccessfulRetentionAtMs, lastFlushError, lastRetentionError,
                   stopPromise, closePromise, db, now, stopPc, deadline, before,
                   sleepFrom, persisted, queuedAtShutdown, queuedAtStop,
                   failedSinceShutdown, failedBatch, stopInternalRuns, dbCloseCalls, appCloseCalls>>

\* The batches of the direct calls: one parsed event.
ParsedEvents ==
    {parseIngestBody(b).events : b \in {x \in Bodies : ~x.isArray /\ parseIngestBody(x).ok}}

\* server.beginShutdown()
BeginShutdownCall ==
    /\ MacrotaskMayRun
    /\ UNCHANGED otherVars
    /\ lifecycleHistory' = historyAfterBeginShutdown
    /\ reply' = NoReply
    /\ lifecycleState' = beginShutdown.lifecycleState
    /\ shutdownStartedAtMs' = beginShutdown.shutdownStartedAtMs
    /\ queuedAtShutdown' = IF lifecycleState = "running" THEN Seqs(queue)
                           ELSE queuedAtShutdown
    /\ UNCHANGED <<queue, stats, flushTimer, retentionTimer, flushInProgress,
                   lastSuccessfulFlushAtMs, lastSuccessfulRetentionAtMs,
                   lastFlushError, lastRetentionError, stopPromise, loopVars,
                   persisted, queuedAtStop, failedSinceShutdown, failedBatch,
                   stopInternalRuns, dbCloseCalls, appCloseCalls>>

closeGuard == closePromise # NULL

\* server.close(): the first call begins the shutdown and calls app.close(), whose
\* onClose hook (the action Stop) runs later.
CloseCall ==
    /\ MacrotaskMayRun
    /\ UNCHANGED otherVars
    /\ IF closeGuard
       THEN /\ reply' = Promise("close", closePromise)
            /\ UNCHANGED <<lifecycleState, shutdownStartedAtMs, closePromise,
                           appCloseCalls, queuedAtShutdown, lifecycleHistory>>
       ELSE /\ lifecycleState' = beginShutdown.lifecycleState
            /\ shutdownStartedAtMs' = beginShutdown.shutdownStartedAtMs
            /\ lifecycleHistory' = historyAfterBeginShutdown
            /\ queuedAtShutdown' = IF lifecycleState = "running" THEN Seqs(queue)
                                   ELSE queuedAtShutdown
            /\ closePromise' = appCloseCalls + 1
            /\ appCloseCalls' = appCloseCalls + 1
            /\ reply' = Promise("close", closePromise')
    /\ UNCHANGED <<queue, stats, flushTimer, retentionTimer, flushInProgress,
                   lastSuccessfulFlushAtMs, lastSuccessfulRetentionAtMs,
                   lastFlushError, lastRetentionError, stopPromise, db, now,
                   flushScheduled, stopPc, deadline, before, sleepFrom, persisted,
                   queuedAtStop, failedSinceShutdown, failedBatch, stopInternalRuns, dbCloseCalls>>

\* stop() without the stored promise: every call runs stopInternal.
stopGuard_Never == FALSE

stopGuard == stopPromise # "null"

\* The end of stopInternal with the forced drop left out of the general counter.
Finalize_ShutdownCounterOnly ==
    LET droppedOnShutdown == Len(queue)
    IN  /\ stats' = [stats EXCEPT !.shutdownDroppedEvents = @ + droppedOnShutdown]
        /\ queue' = <<>>
        /\ lifecycleState' = "stopped"
        /\ db' = [db EXCEPT !.open = FALSE]
        /\ dbCloseCalls' = dbCloseCalls + 1
        /\ stopPromise' = "resolved"
        /\ stopPc' = "done"
        /\ UNCHANGED <<lastSuccessfulFlushAtMs, lastFlushError, flushInProgress,
                       persisted, failedSinceShutdown, failedBatch, before>>

\* The end of stopInternal with the forced drop counted and the queue kept.
Finalize_KeepsQueue ==
    LET droppedOnShutdown == Len(queue)
    IN  /\ stats' = [stats EXCEPT
                        !.shutdownDroppedEvents = @ + droppedOnShutdown,
                        !.droppedEvents = @ + droppedOnShutdown]
        /\ queue' = queue
        /\ lifecycleState' = "stopped"
        /\ db' = [db EXCEPT !.open = FALSE]
        /\ dbCloseCalls' = dbCloseCalls + 1
        /\ stopPromise' = "resolved"
        /\ stopPc' = "done"
        /\ UNCHANGED <<lastSuccessfulFlushAtMs, lastFlushError, flushInProgress,
                       persisted, failedSinceShutdown, failedBatch, before>>

\* The end of stopInternal: forced drop, lifecycle "stopped", db.close().
Finalize ==
    LET droppedOnShutdown == Len(queue)
    IN  /\ stats' = [stats EXCEPT
                        !.shutdownDroppedEvents = @ + droppedOnShutdown,
                        !.droppedEvents = @ + droppedOnShutdown]
        /\ queue' = <<>>
        /\ lifecycleState' = "stopped"
        /\ db' = [db EXCEPT !.open = FALSE]
        /\ dbCloseCalls' = dbCloseCalls + 1
        /\ stopPromise' = "resolved"
        /\ stopPc' = "done"
        /\ UNCHANGED <<lastSuccessfulFlushAtMs, lastFlushError, flushInProgress,
                       persisted, failedSinceShutdown, failedBatch, before>>

\* A drain loop without a deadline.
drainContinues_NoDeadline(dl) == Len(queue) > 0

\* The deadline test reversed: the drain loop is never entered in time.
drainContinues_Reversed(dl) == Len(queue) > 0 /\ now > dl

drainContinues(dl) == Len(queue) > 0 /\ now < dl

\* The head of the drain loop of stopInternal up to its next await: either one
\* more flush() is called and awaited, or the loop is left and the runtime stops.
LoopHead(dl) ==
    IF drainContinues(dl)
    THEN /\ before' = Len(queue)
         /\ \E failAt \in FailChoices : Flush(failAt, TRUE)
         /\ stopPc' = "afterFlush"
         /\ stopPromise' = "pending"
         /\ lifecycleState' = "stopping"
         /\ UNCHANGED dbCloseCalls
    ELSE Finalize

\* A clearTimers() that forgets the retention timer.
clearTimers_FlushOnly == [flushTimer |-> FALSE, retentionTimer |-> retentionTimer]

\* A clearTimers() that clears nothing.
clearTimers_Nothing == [flushTimer |-> flushTimer, retentionTimer |-> retentionTimer]

\* clearTimers(): both intervals are cleared and their handles set to null.
clearTimers == [flushTimer |-> FALSE, retentionTimer |-> FALSE]

\* runtime.stop(): the onClose hook of app.close(), or a direct call.
Stop ==
    /\ MacrotaskMayRun
    /\ UNCHANGED otherVars
    /\ IF stopGuard
       THEN /\ reply' = Promise("stop", stopInternalRuns)
            /\ UNCHANGED <<runtimeVars, db, stopPc, deadline, before, persisted,
                           queuedAtShutdown, queuedAtStop, failedSinceShutdown, failedBatch,
                           stopInternalRuns, dbCloseCalls, lifecycleHistory>>
       ELSE /\ shutdownStartedAtMs' = beginShutdown.shutdownStartedAtMs
            /\ flushTimer' = clearTimers.flushTimer
            /\ retentionTimer' = clearTimers.retentionTimer
            /\ deadline' = now + shutdownTimeoutMs
            /\ LoopHead(deadline')
            /\ lifecycleHistory' = historyAfterStopInternal(historyAfterBeginShutdown)
            /\ stopInternalRuns' = stopInternalRuns + 1
            /\ reply' = Promise("stop", stopInternalRuns')
            /\ queuedAtStop' = Seqs(queue)
            /\ queuedAtShutdown' = IF lifecycleState = "running" THEN Seqs(queue)
                                   ELSE queuedAtShutdown
            /\ UNCHANGED <<lastSuccessfulRetentionAtMs, lastRetentionError>>
    /\ UNCHANGED <<closePromise, now, flushScheduled, sleepFrom, appCloseCalls>>

\* stopInternal resumes after `await this.flush()`.
StopAfterFlush ==
    /\ stopPc = "afterFlush"
    /\ UNCHANGED otherVars
    /\ reply' = NoReply
    /\ IF Len(queue) = 0
       THEN Finalize /\ UNCHANGED sleepFrom
       ELSE IF Len(queue) = before
       THEN /\ stopPc' = "sleeping"
            /\ sleepFrom' = now
            /\ UNCHANGED <<queue, stats, lifecycleState, db, dbCloseCalls, stopPromise,
                           lastSuccessfulFlushAtMs, lastFlushError, flushInProgress,
                           persisted, failedSinceShutdown, failedBatch, before>>
       ELSE LoopHead(deadline) /\ UNCHANGED sleepFrom
    /\ lifecycleHistory' = historyAfterStopInternal(lifecycleHistory)
    /\ UNCHANGED <<flushTimer, retentionTimer, shutdownStartedAtMs,
                   lastSuccessfulRetentionAtMs, lastRetentionError, closePromise, now,
                   flushScheduled, deadline, queuedAtShutdown, queuedAtStop,
                   stopInternalRuns, appCloseCalls>>

\* stopInternal resumes after `await sleep(25)`: the clock has advanced.
StopWake ==
    /\ MacrotaskMayRun
    /\ UNCHANGED otherVars
    /\ stopPc = "sleeping"
    /\ now > sleepFrom
    /\ reply' = NoReply
    /\ LoopHead(deadline)
    /\ lifecycleHistory' = historyAfterStopInternal(lifecycleHistory)
    /\ UNCHANGED <<flushTimer, retentionTimer, shutdownStartedAtMs,
                   lastSuccessfulRetentionAtMs, lastRetentionError, closePromise, now,
                   flushScheduled, deadline, sleepFrom, queuedAtShutdown,
                   queuedAtStop, stopInternalRuns, appCloseCalls>>

\* Time passes while stopInternal waits (for flush I/O or in sleep), up to its
\* deadline, and past it while a sleep has not yet taken any time: sleep(25)
\* returns only after the clock has advanced.  Nothing else in the runtime waits
\* on the clock: before the drain the model's clock stands at the epoch, and the
\* ts of events are free inputs.
Tick ==
    /\ stopPc \in {"afterFlush", "sleeping"}
    /\ UNCHANGED otherVars
    /\ UNCHANGED lifecycleHistory
    /\ now < deadline \/ (stopPc = "sleeping" /\ now = sleepFrom)
    /\ now' = now + 1
    /\ reply' = NoReply
    /\ UNCHANGED <<runtimeVars, closePromise, db, flushScheduled, stopPc, deadline,
                   before, sleepFrom, persisted, queuedAtShutdown, queuedAtStop,
                   failedSinceShutdown, failedBatch, stopInternalRuns, dbCloseCalls, appCloseCalls>>

\* Once the runtime refuses ingest, the handler answers before it reads the body:
\* one well-formed and one malformed body stand for all of them.
RefusedBodies ==
    {CHOOSE b \in Bodies : HasMalformedCandidate(b) = malformed :
        malformed \in {HasMalformedCandidate(b) : b \in Bodies}}

Ingest ==
    \E body \in (IF isAcceptingIngest THEN Bodies ELSE RefusedBodies) : PostIngest(body)
EnqueueDirect == \E events \in ParsedEvents : EnqueueCall(events)

Next ==
    \/ Ingest
    \/ EnqueueDirect
    \/ FlushTick
    \/ FlushMicrotask
    \/ RetentionTick
    \/ BeginShutdownCall
    \/ CloseCall
    \/ Stop
    \/ StopAfterFlush
    \/ StopWake
    \/ Tick

Spec == Init /\ [][Next]_vars

\* The collector while it stays running: nobody begins the shutdown.  The interval
\* timer of start() fires again and again while the event loop runs, and a queued
\* microtask runs when the current callback returns: both flush triggers are
\* weakly fair.
NextRunning ==
    \/ Ingest
    \/ FlushTick
    \/ FlushMicrotask
    \/ RetentionTick

LiveSpec ==
    /\ Init
    /\ [][NextRunning]_vars
    /\ WF_vars(FlushTick)
    /\ WF_vars(FlushMicrotask)

\* The onClose hook of app.close(): the call of runtime.stop() that server.close()
\* brings about.
CloseHook == closePromise # NULL /\ ~stopGuard /\ Stop

\* The whole collector with a fair shutdown: app.close() runs its onClose hook,
\* an awaited flush() and an awaited sleep(25) resume, time passes while
\* stopInternal waits, and a queued microtask runs.
ShutdownSpec ==
    /\ Init
    /\ [][Next]_vars
    /\ WF_vars(CloseHook)
    /\ WF_vars(StopAfterFlush)
    /\ WF_vars(StopWake)
    /\ WF_vars(Tick)
    /\ WF_vars(FlushMicrotask)

\* The whole collector, shutdown included, with the same two fair flush triggers:
\* the interval callback fires as long as its timer is armed.
RetrySpec ==
    /\ Init
    /\ [][Next]_vars
    /\ WF_vars(FlushTick)
    /\ WF_vars(FlushMicrotask)

(***************************************************************************)
(* Configuration resolution (resolveCollectorConfig).  A string is a        *)
(* sequence of one-character strings; Undefined is the absent value.       *)
(***************************************************************************)
Undefined == [defined |-> FALSE, chars |-> <<>>]
Str(chars) == [defined |-> TRUE, chars |-> chars]

DEFAULT_PORT == 8787
DEFAULT_RETENTION_HOURS == 24
DEFAULT_MAX_ROWS == 200000
DEFAULT_FLUSH_INTERVAL_MS == 250
DEFAULT_FLUSH_BATCH_SIZE == 200
DEFAULT_FLUSH_QUEUE_THRESHOLD == 200
DEFAULT_MAX_QUEUE_SIZE == 50000
DEFAULT_RETENTION_INTERVAL_MS == 60000
DEFAULT_SHUTDOWN_TIMEOUT_MS == 5000
\* DEFAULT_REDACT_KEYS as a list of strings.
defaultRedactKeys ==
    << <<"e", "m", "a", "i", "l">>, <<"t", "o", "k", "e", "n">>,
       <<"a", "u", "t", "h", "o", "r", "i", "z", "a", "t", "i", "o", "n">>,
       <<"p", "a", "s", "s", "w", "o", "r", "d">> >>

Digits == <<"0", "1", "2", "3", "4", "5", "6", "7", "8", "9">>
isDigit(c) == \E i \in DOMAIN Digits : Digits[i] = c
digitValue(c) == (CHOOSE i \in DOMAIN Digits : Digits[i] = c) - 1
isWhitespace(c) == c = " "

Tail1(str) == SubSeq(str, 2, Len(str))

RECURSIVE trimStart(_)
trimStart(str) ==
    IF str # <<>> /\ isWhitespace(str[1]) THEN trimStart(Tail1(str)) ELSE str

RECURSIVE trimEnd(_)
trimEnd(str) ==
    IF str # <<>> /\ isWhitespace(str[Len(str)])
    THEN trimEnd(SubSeq(str, 1, Len(str) - 1))
    ELSE str

\* String.prototype.trim
trim(str) == trimEnd(trimStart(str))

\* The longest prefix of decimal digits.
RECURSIVE digitPrefix(_)
digitPrefix(str) ==
    IF str # <<>> /\ isDigit(str[1])
    THEN <<str[1]>> \o digitPrefix(Tail1(str))
    ELSE <<>>

RECURSIVE digitsToNumber(_)
digitsToNumber(digits) ==
    IF digits = <<>> THEN 0
    ELSE 10 * digitsToNumber(SubSeq(digits, 1, Len(digits) - 1))
           + digitValue(digits[Len(digits)])

NaN == [nan |-> TRUE, v |-> 0]

\* Number.parseInt(str, 10): leading white space is skipped, one sign is read, then
\* the longest prefix of digits; whatever follows is ignored; no digit gives NaN.
parseInt(str) ==
    LET t == trimStart(str)
        signed == t # <<>> /\ t[1] \in {"-", "+"}
        negative == t # <<>> /\ t[1] = "-"
        digits == digitPrefix(IF signed THEN Tail1(t) ELSE t)
    IN  IF digits = <<>>
        THEN NaN
        ELSE [nan |-> FALSE,
              v |-> IF negative THEN 0 - digitsToNumber(digits)
                    ELSE digitsToNumber(digits)]

\* Number.isInteger on the numbers of the model.
NumberIsInteger(value) == value.t = "number" /\ value.s = ""

\* The environment value wins over the explicit option.
normalizePositiveInt_EnvFirst(explicit, envValue, fallback) ==
    IF envValue.defined /\ envValue.chars # <<>>
          /\ ~parseInt(envValue.chars).nan /\ parseInt(envValue.chars).v > 0
    THEN parseInt(envValue.chars).v
    ELSE IF NumberIsInteger(explicit) /\ explicit.n > 0
    THEN explicit.n
    ELSE fallback

normalizePositiveInt(explicit, envValue, fallback) ==
    IF explicit.t = "number" /\ NumberIsInteger(explicit) /\ explicit.n > 0
    THEN explicit.n
    ELSE IF envValue.defined /\ envValue.chars # <<>>
               /\ ~parseInt(envValue.chars).nan /\ parseInt(envValue.chars).v > 0
    THEN parseInt(envValue.chars).v
    ELSE fallback

\* String.prototype.split(","): the pieces between the commas.
RECURSIVE split(_)
split(str) ==
    IF \E i \in DOMAIN str : str[i] = ","
    THEN LET i == CHOOSE k \in DOMAIN str :
                      str[k] = "," /\ \A j \in 1..(k - 1) : str[j] # ","
         IN  <<SubSeq(str, 1, i - 1)>> \o split(SubSeq(str, i + 1, Len(str)))
    ELSE <<str>>

\* String.prototype.toLowerCase, character by character.
lowerCaseChar(c) ==
    CASE c = "A" -> "a"
      [] c = "E" -> "e"
      [] c = "K" -> "k"
      [] c = "Y" -> "y"
      [] OTHER -> c
toLowerCaseString(str) == [i \in DOMAIN str |-> lowerCaseChar(str[i])]

\* [...new Set(list)]: the first occurrence of each element, in order.
RECURSIVE uniqueInOrder(_)
uniqueInOrder(list) ==
    IF list = <<>> THEN <<>>
    ELSE LET rest == uniqueInOrder(SubSeq(list, 1, Len(list) - 1))
             last == list[Len(list)]
         IN  IF \E i \in DOMAIN rest : rest[i] = last THEN rest ELSE Append(rest, last)

\* Keys compared as they were given: no trimming, no lower-casing.
normalizeRedactKeys_Raw(input) ==
    uniqueInOrder(SelectSeq(input, LAMBDA key : key # <<>>))

normalizeRedactKeys(input) ==
    uniqueInOrder(SelectSeq([i \in DOMAIN input |-> toLowerCaseString(trim(input[i]))],
                            LAMBDA key : key # <<>>))

\* explicit is [defined, list]; envValue is a string or Undefined.
resolveRedactKeys(explicit, envValue) ==
    IF explicit.defined
    THEN normalizeRedactKeys(explicit.list)
    ELSE IF envValue.defined
    THEN normalizeRedactKeys(split(envValue.chars))
    ELSE defaultRedactKeys

\* The numeric settings, by the name of their option.
NumericSettings ==
    {"port", "retentionHours", "maxRows", "flushIntervalMs", "flushBatchSize",
     "flushQueueThreshold", "maxQueueSize", "retentionIntervalMs", "shutdownTimeoutMs"}

\* options and env map the name of a setting to its value (env: the value of the
\* LOGBOOK_ variable of that setting).
resolveCollectorConfig(options, env) ==
    [port |-> normalizePositiveInt(options.port, env.port, DEFAULT_PORT),
     retentionHours |-> normalizePositiveInt(options.retentionHours, env.retentionHours,
                                             DEFAULT_RETENTION_HOURS),
     maxRows |-> normalizePositiveInt(options.maxRows, env.maxRows, DEFAULT_MAX_ROWS),
     flushIntervalMs |-> normalizePositiveInt(options.flushIntervalMs, env.flushIntervalMs,
                                              DEFAULT_FLUSH_INTERVAL_MS),
     flushBatchSize |-> normalizePositiveInt(options.flushBatchSize, env.flushBatchSize,
                                             DEFAULT_FLUSH_BATCH_SIZE),
     flushQueueThreshold |-> normalizePositiveInt(options.flushQueueThreshold,
                                                  env.flushQueueThreshold,
                                                  DEFAULT_FLUSH_QUEUE_THRESHOLD),
     maxQueueSize |-> normalizePositiveInt(options.maxQueueSize, env.maxQueueSize,
                                           DEFAULT_MAX_QUEUE_SIZE),
     retentionIntervalMs |-> normalizePositiveInt(options.retentionIntervalMs,
                                                  env.retentionIntervalMs,
                                                  DEFAULT_RETENTION_INTERVAL_MS),
     shutdownTimeoutMs |-> normalizePositiveInt(options.shutdownTimeoutMs,
                                                env.shutdownTimeoutMs,
                                                DEFAULT_SHUTDOWN_TIMEOUT_MS),
     dropPolicy |-> "drop_oldest",
     redactKeys |-> resolveRedactKeys(options.redactKeys, env.redactKeys)]

\* The explicit values of a numeric option: absent, 7, 0, -3, 1.5, Infinity.
ExplicitNumbers ==
    {JUndefined, JNumber(7), JNumber(0), JNumber(0 - 3), JHalf(1), JInfinity}

\* The values of a numeric environment variable: unset, "", "12", "0", "-5",
\* "abc", "12abc", "1.5", " 42", "+3".
EnvNumbers ==
    {Undefined, Str(<<>>), Str(<<"1", "2">>), Str(<<"0">>), Str(<<"-", "5">>),
     Str(<<"a", "b", "c">>), Str(<<"1", "2", "a", "b", "c">>), Str(<<"1", ".", "5">>),
     Str(<<" ", "4", "2">>), Str(<<"+", "3">>)}

NoList == [defined |-> FALSE, list |-> <<>>]
List(list) == [defined |-> TRUE, list |-> list]

\* The explicit redactKeys option: absent, [], [" Email ", "email", "KEY"].
ExplicitRedactKeys ==
    {NoList, List(<<>>),
     List(<< <<" ", "E", "m", "a", "i", "l", " ">>, <<"e", "m", "a", "i", "l">>,
             <<"K", "E", "Y">> >>)}

\* LOGBOOK_REDACT_KEYS: unset, "", "apiKey,secret" (the test, server.test.ts
\* 599-606), and " A ,a,,b".
EnvRedactKeys ==
    {Undefined, Str(<<>>),
     Str(<<"a", "p", "i", "K", "e", "y", ",", "s", "e", "c", "r", "e", "t">>),
     Str(<<" ", "A", " ", ",", "a", ",", ",", "b">>)}

\* The call of resolveCollectorConfig at startup (createCollectorServer calls it
\* once): one numeric setting is given (explicitly and in the environment), the
\* others are absent; redactKeys likewise.
ResolveCollectorConfig ==
    /\ ~resolution.called
    /\ \E setting \in NumericSettings, explicit \in ExplicitNumbers,
          envValue \in EnvNumbers, keys \in ExplicitRedactKeys,
          envKeys \in EnvRedactKeys :
          LET options == [k \in NumericSettings \cup {"redactKeys"} |->
                             IF k = "redactKeys" THEN keys
                             ELSE IF k = setting THEN explicit ELSE JUndefined]
              env == [k \in NumericSettings \cup {"redactKeys"} |->
                         IF k = "redactKeys" THEN envKeys
                         ELSE IF k = setting THEN envValue ELSE Undefined]
          IN  resolution' = [called |-> TRUE, setting |-> setting,
                             explicit |-> explicit, envValue |-> envValue,
                             keys |-> keys, envKeys |-> envKeys,
                             config |-> resolveCollectorConfig(options, env)]
    /\ UNCHANGED <<runtimeVars, loopVars, ghostVars, logger, redaction, adapter>>

ConfigNext == ResolveCollectorConfig

\* resolveCollectorConfig on its own: a pure function applied to every input of
\* the sets above.
ConfigSpec == Init /\ [][ConfigNext]_vars

(***************************************************************************)
(* The SDK logger (LogbookLogger).  Every action is one run-to-completion   *)
(* block: a public call, the interval callback, or the part of flush()     *)
(* that runs when `await this.sendBatch(batch)` returns.                   *)
(***************************************************************************)
\* The queue is tested for its cap one entry late.
loggerQueueIsFull_OneLate(q) == Len(q) > loggerMaxQueueSize

loggerQueueIsFull(q) == Len(q) >= loggerMaxQueueSize

\* The names of the events logged: the empty name, and a name.
LogNames == {"", "app.event"}

\* log(level, name, payload), reached through debug / info / warn / error.
LoggerLog ==
    /\ logger.logCalls < MaxLogCalls
    /\ \E name \in LogNames :
          LET ordinal == logger.logCalls + 1
              called == [logger EXCEPT !.logCalls = ordinal, !.call = "log",
                                       !.name = name]
              shifted == IF loggerQueueIsFull(logger.queue)
                         THEN Tail(logger.queue) ELSE logger.queue
          IN  logger' = IF name = "" \/ logger.stopped
                        THEN called
                        ELSE [called EXCEPT !.queue = Append(shifted, ordinal)]
    /\ UNCHANGED <<runtimeVars, loopVars, ghostVars, resolution, redaction, adapter>>

\* The early return of the logger's flush(force).
loggerFlushReturnsEarly(force) ==
    logger.flushInProgress \/ Len(logger.queue) = 0 \/ (logger.stopped /\ ~force)

\* flush(force) up to its first await: the head batch is handed to sendBatch.
loggerFlush(lg, force) ==
    IF loggerFlushReturnsEarly(force)
    THEN lg
    ELSE [lg EXCEPT !.flushInProgress = TRUE,
                    !.inFlight = Min(loggerBatchSize, Len(lg.queue)),
                    !.batch = SubSeq(lg.queue, 1, Min(loggerBatchSize, Len(lg.queue)))]

\* The interval callback, a best-effort flush hook or a call of flush().
LoggerFlush ==
    /\ logger' = loggerFlush([logger EXCEPT !.call = "flush"], FALSE)
    /\ UNCHANGED <<runtimeVars, loopVars, ghostVars, resolution, redaction, adapter>>

\* sendBatch returns: response.ok, or false when fetch threw or the status was
\* not ok.  A refused batch ends the pass; an accepted one is spliced off the
\* head of the queue and the loop sends the next batch.
LoggerSendBatchReturns ==
    /\ logger.inFlight # NULL
    /\ \E accepted \in BOOLEAN :
          logger' =
             IF ~accepted
             THEN [logger EXCEPT !.flushInProgress = FALSE, !.inFlight = NULL,
                                 !.call = "sendBatch", !.refused = TRUE,
                                 !.batch = <<>>,
                                 !.kept = {logger.queue[i] : i \in DOMAIN logger.queue}]
             ELSE LET rest == SubSeq(logger.queue, logger.inFlight + 1,
                                     Len(logger.queue))
                  IN  [logger EXCEPT
                          !.queue = rest,
                          !.inFlight = IF Len(rest) > 0
                                       THEN Min(loggerBatchSize, Len(rest)) ELSE NULL,
                          !.batch = SubSeq(rest, 1, Min(loggerBatchSize, Len(rest))),
                          !.flushInProgress = Len(rest) > 0,
                          !.delivered = @ \cup {logger.batch[i] : i \in DOMAIN logger.batch},
                          !.call = "sendBatch", !.accepted = TRUE]
    /\ UNCHANGED <<runtimeVars, loopVars, ghostVars, resolution, redaction, adapter>>

\* shutdown(): stops the logger, clears the timer and flushes with force.
LoggerShutdown ==
    /\ ~logger.stopped
    /\ logger' = loggerFlush([logger EXCEPT !.stopped = TRUE, !.timer = FALSE,
                                            !.call = "shutdown"], TRUE)
    /\ UNCHANGED <<runtimeVars, loopVars, ghostVars, resolution, redaction, adapter>>

LoggerNext ==
    \/ LoggerLog
    \/ LoggerFlush
    \/ LoggerSendBatchReturns
    \/ LoggerShutdown

LoggerSpec == Init /\ [][LoggerNext]_vars

(***************************************************************************)
(* Redaction of payloads that are object graphs.  A payload handed to       *)
(* enqueue by code of the same process need not be a tree: the heap maps    *)
(* node ids to plain objects and arrays whose entries are references to     *)
(* nodes or primitives.  redactValue is run one call, one return and one    *)
(* loop round at a time on an explicit call stack of bounded depth.         *)
(***************************************************************************)
MaxNodes == 2
MaxKids == 2

HeapNodes == 1..MaxNodes
\* A reference: a node id, or 0 for a primitive entry.
Refs == 0..MaxNodes
KeyNames == <<"a", "b", "c", "d">>
objectKeys(n, secret) ==
    [i \in 1..n |-> IF i = 1 /\ secret THEN "PASSWORD" ELSE KeyNames[i]]
KidSeqs == UNION {[1..n -> Refs] : n \in 0..MaxKids}
HeapNodeValues ==
    {[t |-> "array", keys |-> <<>>, kids |-> kids] : kids \in KidSeqs}
        \cup {[t |-> "object", keys |-> objectKeys(Len(kids), secret), kids |-> kids] :
                 kids \in KidSeqs, secret \in BOOLEAN}
Heaps == [HeapNodes -> HeapNodeValues]
EmptyHeap == [n \in HeapNodes |-> [t |-> "array", keys |-> <<>>, kids |-> <<>>]]
Primitive == JString("v")
CIRCULAR == "[Circular]"

\* The depth of nested calls the engine allows before it throws RangeError
\* (maximum call stack size exceeded); every traversal that ends needs less.
StackLimit == MaxNodes * MaxNodes

\* `return v` of a call of redactValue.
redactReturn(r, v) == [r EXCEPT !.mode = "return", !.val = v]

\* A call descends into a node: its frame is pushed, or the stack is exhausted.
redactPush(r) ==
    IF Len(r.stack) >= StackLimit
    THEN [r EXCEPT !.pc = "overflow"]
    ELSE [r EXCEPT !.stack = Append(@, [node |-> r.ref, acc |-> <<>>]),
                   !.mode = "loop"]

\* The entry of redactValue(value, redactKeys, seen): an array is mapped
\* without a look at seen; a value that is not a plain object is returned; a
\* plain object in seen gives the marker, any other is added to seen.
redactCall(r) ==
    IF r.ref # 0 /\ r.heap[r.ref].t = "array"
    THEN redactPush(r)
    ELSE IF r.ref = 0
    THEN redactReturn(r, Primitive)
    ELSE IF r.ref \in r.seen
    THEN redactReturn(r, JString(CIRCULAR))
    ELSE redactPush([r EXCEPT !.seen = @ \cup {r.ref}])

\* A loop that redacts whatever the key is.
redactLoop_RedactsAll(r) ==
    LET top == r.stack[Len(r.stack)]
        node == r.heap[top.node]
        i == Len(top.acc) + 1
    IN  IF i > Len(node.kids)
        THEN [r EXCEPT !.stack = SubSeq(@, 1, Len(@) - 1),
                       !.seen = IF node.t = "object" THEN @ \ {top.node} ELSE @,
                       !.mode = "return",
                       !.val = IF node.t = "array"
                               THEN JArray(top.acc)
                               ELSE JObject(node.keys, top.acc)]
        ELSE IF node.t = "object"
        THEN [r EXCEPT !.stack[Len(r.stack)].acc = Append(@, JString(REDACTED_VALUE))]
        ELSE [r EXCEPT !.mode = "call", !.ref = node.kids[i]]

\* One round of value.map / of the loop over Object.entries(value) in the top
\* frame, or its end: seen.delete(value) for an object, and the return.
redactLoop(r) ==
    LET top == r.stack[Len(r.stack)]
        node == r.heap[top.node]
        i == Len(top.acc) + 1
    IN  IF i > Len(node.kids)
        THEN [r EXCEPT !.stack = SubSeq(@, 1, Len(@) - 1),
                       !.seen = IF node.t = "object" THEN @ \ {top.node} ELSE @,
                       !.mode = "return",
                       !.val = IF node.t = "array"
                               THEN JArray(top.acc)
                               ELSE JObject(node.keys, top.acc)]
        ELSE IF node.t = "object" /\ toLowerCase(node.keys[i]) \in r.redactKeys
        THEN [r EXCEPT !.stack[Len(r.stack)].acc = Append(@, JString(REDACTED_VALUE))]
        ELSE [r EXCEPT !.mode = "call", !.ref = node.kids[i]]

\* A call has returned: to the frame that made it, or, from the outermost
\* call, to redactEventPayload, which returns the event itself when the value
\* it got back is the payload it passed (redactedPayload === event.payload).
redactResume(r) ==
    IF Len(r.stack) = 0
    THEN [r EXCEPT !.pc = "done",
                   !.result = [same |-> r.payload = "leaf", payload |-> r.val]]
    ELSE [r EXCEPT !.stack[Len(r.stack)].acc = Append(@, r.val),
                   !.mode = "loop"]

redactValueStep(r) ==
    CASE r.mode = "call" -> redactCall(r)
      [] r.mode = "return" -> redactResume(r)
      [] OTHER -> redactLoop(r)

\* redactEventPayload(event, redactKeys) up to its call of redactValue.
redactEventPayloadBegin(heap, payload, redactKeys) ==
    LET r == [pc |-> "running", heap |-> heap, payload |-> payload,
              redactKeys |-> redactKeys, mode |-> "call",
              ref |-> IF payload = "node" THEN 1 ELSE 0,
              val |-> JUndefined, stack |-> <<>>, seen |-> {},
              result |-> [same |-> FALSE, payload |-> JUndefined]]
    IN  IF payload = "absent" \/ redactKeys = {}
        THEN [r EXCEPT !.pc = "done", !.result.same = TRUE]
        ELSE r

\* The payloads: absent, a primitive, or node 1 of a heap.
RedactInputs ==
    {[heap |-> EmptyHeap, payload |-> p] : p \in {"absent", "leaf"}}
        \cup {[heap |-> h, payload |-> "node"] : h \in Heaps}

RedactBegin ==
    /\ redaction.pc = "idle"
    /\ \E input \in RedactInputs, redactKeys \in {redactKeySet, {}} :
          redaction' = redactEventPayloadBegin(input.heap, input.payload, redactKeys)
    /\ UNCHANGED <<runtimeVars, loopVars, ghostVars, resolution, logger, adapter>>

RedactStep ==
    /\ redaction.pc = "running"
    /\ redaction' = redactValueStep(redaction)
    /\ UNCHANGED <<runtimeVars, loopVars, ghostVars, resolution, logger, adapter>>

RedactNext == RedactBegin \/ RedactStep

\* redactEventPayload on its own, applied once to every input; a call that has
\* begun runs on (it is synchronous code).
RedactSpec == Init /\ [][RedactNext]_vars /\ WF_vars(RedactStep)


(***************************************************************************)
(* The SDK's React Native flush adapter (attachReactNativeFlushAdapter).    *)
(* The host is any object of type ReactNativeAppStateLike: its              *)
(* addEventListener returns a subscription or nothing, its remove() may     *)
(* throw, and registering for memoryWarning may throw.  The host delivers   *)
(* an event to the listeners that are registered with it.                   *)
(***************************************************************************)
MaxAppEvents == 3
MaxDetachCalls == 2

DEFAULT_FLUSH_STATES == <<"background", "inactive">>
AppStates == {"active", "inactive", "background"}

\* The hosts: what addEventListener returns, whether remove() throws, whether
\* addEventListener("memoryWarning") throws.
Hosts ==
    [returns : {"subscription", "void"}, removeThrows : BOOLEAN,
     memoryThrows : BOOLEAN]

\* options.flushOnStates: absent, or a list of states.
\* An absent state (appState.currentState is optional).
NoState == "undefined"

\* options.flushOnStates: absent (NoList), or a list of states.
FlushOnStatesOptions ==
    {NoList, List(<<>>), List(<<"background">>), List(<<"", "active", "active">>)}

\* new Set((options.flushOnStates ?? DEFAULT_FLUSH_STATES).filter(Boolean))
flushStatesOf(flushOnStates) ==
    LET list == IF flushOnStates.defined THEN flushOnStates.list
                ELSE DEFAULT_FLUSH_STATES
    IN  {list[i] : i \in {j \in DOMAIN list : list[j] # ""}}

\* A listener that flushes on every event whose state is in the set.
changeListener_NoComparison(a, nextState) ==
    [a EXCEPT !.lastState = nextState,
              !.flushCalls = IF nextState \in a.flushStates THEN @ + 1 ELSE @]

\* changeListener(nextState)
changeListener(a, nextState) ==
    [a EXCEPT !.lastState = nextState,
              !.flushCalls = IF nextState \in a.flushStates /\ a.lastState # nextState
                             THEN @ + 1 ELSE @]

\* memoryWarningListener()
memoryWarningListener(a) ==
    [a EXCEPT !.flushCalls = IF a.flushOnMemoryWarning THEN @ + 1 ELSE @]

\* attachReactNativeFlushAdapter(logger, options).  When registering for
\* memoryWarning throws, the host may or may not have kept the listener.
AdapterAttach ==
    /\ ~adapter.attached
    /\ \E host \in Hosts, flushOnStates \in FlushOnStatesOptions,
          flushOnMemoryWarning \in BOOLEAN,
          currentState \in {NoState} \cup AppStates,
          keptAnyway \in BOOLEAN :
          /\ (keptAnyway => (flushOnMemoryWarning /\ host.memoryThrows))
          /\ adapter' =
                [attached |-> TRUE, host |-> host, flushOnStates |-> flushOnStates,
                 flushStates |-> flushStatesOf(flushOnStates),
                 flushOnMemoryWarning |-> flushOnMemoryWarning,
                 lastState |-> currentState, detached |-> FALSE,
                 changeListening |-> TRUE,
                 changeSubscription |-> host.returns = "subscription",
                 memoryListening |-> flushOnMemoryWarning
                                       /\ (~host.memoryThrows \/ keptAnyway),
                 memorySubscription |-> flushOnMemoryWarning /\ ~host.memoryThrows
                                          /\ host.returns = "subscription",
                 flushCalls |-> 0, events |-> 0, detachCalls |-> 0,
                 event |-> [type |-> "none", state |-> NoState]]
    /\ UNCHANGED <<runtimeVars, loopVars, ghostVars, resolution, logger, redaction>>

\* The host emits "change" with a state.
AppStateChange ==
    /\ adapter.attached
    /\ adapter.events < MaxAppEvents
    /\ \E nextState \in AppStates :
          adapter' =
             [(IF adapter.changeListening
               THEN changeListener(adapter, nextState) ELSE adapter)
              EXCEPT !.events = @ + 1,
                     !.event = [type |-> "change", state |-> nextState]]
    /\ UNCHANGED <<runtimeVars, loopVars, ghostVars, resolution, logger, redaction>>

\* The host emits "memoryWarning".
AppMemoryWarning ==
    /\ adapter.attached
    /\ adapter.events < MaxAppEvents
    /\ adapter' =
          [(IF adapter.memoryListening
            THEN memoryWarningListener(adapter) ELSE adapter)
           EXCEPT !.events = @ + 1,
                  !.event = [type |-> "memoryWarning", state |-> NoState]]
    /\ UNCHANGED <<runtimeVars, loopVars, ghostVars, resolution, logger, redaction>>

\* detach(): each subscription that exists is removed; a remove() that throws
\* may or may not have removed the listener.
AdapterDetach ==
    /\ adapter.attached
    /\ adapter.detachCalls < MaxDetachCalls
    /\ \E changeRemoved \in BOOLEAN, memoryRemoved \in BOOLEAN :
          /\ (~changeRemoved => adapter.host.removeThrows)
          /\ (~memoryRemoved => adapter.host.removeThrows)
          /\ adapter' =
                IF adapter.detached
                THEN [adapter EXCEPT !.detachCalls = @ + 1,
                                     !.event = [type |-> "detach", state |-> NoState]]
                ELSE [adapter EXCEPT
                         !.detached = TRUE,
                         !.changeListening =
                             IF adapter.changeSubscription THEN ~changeRemoved ELSE @,
                         !.memoryListening =
                             IF adapter.memorySubscription THEN ~memoryRemoved ELSE @,
                         !.detachCalls = @ + 1,
                         !.event = [type |-> "detach", state |-> NoState]]
    /\ UNCHANGED <<runtimeVars, loopVars, ghostVars, resolution, logger, redaction>>

AdapterNext ==
    \/ AdapterAttach
    \/ AppStateChange
    \/ AppMemoryWarning
    \/ AdapterDetach

\* The adapter on its own with a host of any allowed kind.
AdapterSpec == Init /\ [][AdapterNext]_vars


(***************************************************************************)
(* Properties.                                                             *)
(***************************************************************************)
RowSeqs(d) == {d.rows[i].row.seq : i \in DOMAIN d.rows}
LastN(s, k) == SubSeq(s, Len(s) - k + 1, Len(s))

\* The events of a batch as the queue holds them: redacted, in submission order,
\* numbered from the admission count the call found.
Admitted(events, base) ==
    [i \in DOMAIN events |->
        [redactEventPayload(events[i], redactKeySet) EXCEPT !.seq = base + i]]

\* C1 (boundedness): in every state, hence whenever an enqueue call has
\* returned, the queue holds at most maxQueueSize events, also after a single
\* call whose batch is larger than maxQueueSize.
C1_Boundedness == Len(queue) <= maxQueueSize

\* An ingest of a batch larger than the cap has returned and the queue is at the cap.
C1_Witness ==
    /\ reply.op = "ingest"
    /\ reply.status = 202
    /\ reply.n > maxQueueSize
    /\ Len(queue) = maxQueueSize

\* C2 (strict drop-oldest): an enqueue of a batch of n events on a queue of
\* length q leaves exactly the last min(maxQueueSize, q + n) events of the old
\* queue followed by the batch, in submission order: every eviction takes the
\* head, never the event being admitted.
C2_StrictDropOldest ==
    [][\A body \in Bodies :
          (reply'.op = "ingest" /\ reply'.status \in {202, 500}
             /\ reply'.n = Len(body.items) /\ ~HasMalformedCandidate(body)
             /\ PostIngest(body))
          => LET all == queue \o Admitted(parseIngestBody(body).events,
                                          stats.acceptedEvents)
             IN  queue' = LastN(all, Min(maxQueueSize, Len(all)))]_vars

\* One event was admitted on a queue at the cap: it is the tail, the old head is gone.
C2_Witness ==
    /\ reply.op = "ingest"
    /\ reply.status = 202
    /\ reply.n = 1
    /\ reply.q = maxQueueSize
    /\ Len(queue) = maxQueueSize
    /\ queue[Len(queue)].seq = stats.acceptedEvents
    /\ queue[1].seq = stats.acceptedEvents - maxQueueSize + 1

\* C3 (drop monotonicity): stats.droppedEvents never decreases, and one enqueue
\* call adds to it exactly the number of evictions it caused: max(0, q + n -
\* maxQueueSize) for a batch of n events admitted on a queue of length q (a call
\* outside "running" admits nothing and evicts nothing).
C3_DropMonotonicity ==
    [][/\ stats'.droppedEvents >= stats.droppedEvents
       /\ (reply'.op \in {"ingest", "enqueue"})
          => stats'.droppedEvents - stats.droppedEvents =
                 IF lifecycleState = "running"
                 THEN Max(0, reply'.q + reply'.n - maxQueueSize)
                 ELSE 0]_vars

\* A batch of several events on a non-empty queue overflowed the cap, and the
\* call reported the evictions.
C3_Witness ==
    /\ reply.op = "ingest"
    /\ reply.status = 202
    /\ reply.n >= 2
    /\ reply.q >= 1
    /\ reply.q + reply.n > maxQueueSize
    /\ stats.droppedEvents >= reply.q + reply.n - maxQueueSize

\* A flush pass whose insert threw / a pass that wrote and did not throw.
FlushFailed == stats'.flushFailures = stats.flushFailures + 1
FlushSucceeded == stats'.flushFailures = stats.flushFailures /\ db'.nextId > db.nextId

\* The failing pass took from the queue only the batches it had written: the
\* batch whose insert threw, and everything behind it, stays queued in order.
FailedBatchStaysQueued ==
    FlushFailed
    => \E k \in 0..(Len(queue) - 1) :
          /\ queue' = SubSeq(queue, k + 1, Len(queue))
          /\ Seqs(SubSeq(queue, 1, k)) \subseteq RowSeqs(db')
          /\ failedBatch' = Seqs(flushBatch(queue'))
          /\ failedBatch' # {}

\* C4 (at-least-once flush durability), as the spec states it: a failed batch
\* write removes none of that batch's events from the queue, and a subsequent
\* successful flush persists them.
C4_AsStated ==
    [][/\ FailedBatchStaysQueued
       /\ FlushSucceeded => failedBatch \subseteq persisted']_vars

\* C4, amended: a failed batch write removes none of that batch's events from
\* the queue; a subsequent successful flush persists every event still queued,
\* among them what is left of the failed batch; until then an event of the
\* failed batch leaves the queue only by an eviction or a forced drop, which
\* droppedEvents counts.
C4_FlushDurability ==
    [][/\ FailedBatchStaysQueued
       /\ FlushSucceeded => (queue' = <<>> /\ Seqs(queue) \subseteq RowSeqs(db'))
       /\ \A e \in failedBatch \cap Seqs(queue) :
             e \notin Seqs(queue')
             => (e \in RowSeqs(db') \/ stats'.droppedEvents > stats.droppedEvents)]_vars

\* A batch write failed, and a later pass has stored that batch.
C4_Witness ==
    /\ stats.flushFailures = 1
    /\ failedBatch # {}
    /\ failedBatch \subseteq RowSeqs(db)
    /\ lastFlushError = NULL
    /\ queue = <<>>

C6_ShutdownIdempotence ==
    /\ stopInternalRuns <= 1
    /\ dbCloseCalls <= 1
    /\ appCloseCalls <= 1
    /\ reply.op \in {"close", "stop"} => reply.promise = 1
    /\ stopInternalRuns = 1 => (~flushTimer /\ ~retentionTimer)

\* stop() was called while the drain started by close() was in flight, between
\* two of its attempts (the call that starts the drain never returns there), and
\* got the stored promise.
C6_Witness ==
    /\ reply.op = "stop"
    /\ reply.promise = 1
    /\ stopPc = "sleeping"
    /\ appCloseCalls = 1
    /\ stopPromise = "pending"
    /\ stopInternalRuns = 1

\* The call left the queue, the counters and the pending flush as they were.
IngestStateUnchanged ==
    queue' = queue /\ stats' = stats /\ flushScheduled' = flushScheduled

\* C7 (lifecycle rejection): once the lifecycle is not "running", every POST
\* /ingest, whatever its body, is answered 503 and leaves the queue and the
\* counters unchanged.
C7_LifecycleRejection ==
    [][(reply'.op = "ingest" /\ lifecycleState # "running")
       => (reply'.status = 503 /\ reply'.accepted = 0 /\ IngestStateUnchanged)]_vars

\* A well-formed body was refused while events were still queued for the drain.
C7_Witness ==
    /\ reply.op = "ingest"
    /\ reply.status = 503
    /\ ~reply.malformed
    /\ lifecycleState = "stopping"
    /\ Len(queue) > 0
    /\ stats.acceptedEvents < MaxEvents

\* C8 (enqueue outside "running"): a call of enqueue while the lifecycle is not
\* "running" returns accepted = 0 and changes neither the queue nor any
\* counter nor schedules a flush; hence no event enters the queue once the
\* shutdown has begun.
C8_EnqueueNoOpOutsideRunning ==
    [][/\ \A events \in ParsedEvents :
             (reply'.op = "enqueue" /\ lifecycleState # "running" /\ EnqueueCall(events))
             => /\ reply'.accepted = 0
                /\ reply'.dropped = stats.droppedEvents
                /\ IngestStateUnchanged
                /\ ~flushScheduled'
       /\ lifecycleState # "running" => Seqs(queue') \subseteq Seqs(queue)]_vars

\* enqueue was called with events during the shutdown, on a queue at the flush
\* threshold, and accepted nothing.
C8_Witness ==
    /\ reply.op = "enqueue"
    /\ reply.n >= 1
    /\ reply.accepted = 0
    /\ lifecycleState = "stopping"
    /\ reachedFlushThreshold(queue)
    /\ ~flushScheduled

\* C9 (validation errors), as the spec states it: an invalid body is answered
\* 400 and changes no state.
C9_AsStated ==
    [][(reply'.op = "ingest" /\ reply'.malformed)
       => (reply'.status = 400 /\ IngestStateUnchanged)]_vars

\* C9, amended: a body with a malformed candidate, also one that follows valid
\* candidates, enqueues nothing and changes no state; it is answered 400 while
\* the lifecycle is "running" and 503 otherwise.
C9_ValidationChangesNoState ==
    [][(reply'.op = "ingest" /\ reply'.malformed)
       => /\ reply'.status = IF lifecycleState = "running" THEN 400 ELSE 503
          /\ reply'.accepted = 0
          /\ IngestStateUnchanged]_vars

\* An array whose second candidate is malformed (its first is valid) was
\* answered 400 while running.
C9_Witness ==
    /\ reply.op = "ingest"
    /\ reply.status = 400
    /\ reply.index = 1
    /\ reply.malformed
    /\ lifecycleState = "running"

\* C10 (capacity and persistence problems are not surfaced), as the spec states
\* it: in the "running" state a valid POST /ingest is always answered 202.
C10_ValidIngestAnswered202 ==
    (reply.op = "ingest" /\ lifecycleState = "running" /\ ~reply.malformed)
    => reply.status = 202

\* C11 (enqueue return value): an enqueue in the "running" state returns accepted
\* equal to the size of its batch, also when events of the batch were evicted
\* within the call, and dropped equal to the cumulative droppedEvents counter
\* after the call, not the evictions of this call.
C11_EnqueueReturnValue ==
    [][(reply'.op = "ingest" /\ reply'.status = 202)
       => /\ reply'.accepted = reply'.n
          /\ reply'.accepted = stats'.acceptedEvents - stats.acceptedEvents
          /\ reply'.dropped = stats'.droppedEvents]_vars

\* A batch larger than the cap was accepted whole although the call itself
\* evicted part of it, and the call reported the counter.
C11_Witness ==
    /\ reply.op = "ingest"
    /\ reply.status = 202
    /\ reply.accepted > maxQueueSize
    /\ reply.accepted > Len(queue)
    /\ reply.dropped = stats.droppedEvents
    /\ reply.dropped >= 1

MoreRecent(r2, r1) ==
    r2.row.ts > r1.row.ts \/ (r2.row.ts = r1.row.ts /\ r2.id > r1.id)

\* The n most recent rows by (timestamp, id), in the order the store holds them.
MostRecent(rows, n) ==
    SelectSeq(rows, LAMBDA r :
        Cardinality({j \in DOMAIN rows : MoreRecent(rows[j], r)}) < n)

\* The rows that are not older than the cutoff of a sweep that runs now.
NotAgedOut(rows) == SelectSeq(rows, LAMBDA r : r.row.ts >= now - retentionMs)

\* C13 (retention order), as the spec states it: after a retention sweep with
\* more than maxRows rows present, exactly the maxRows most recent rows by
\* (timestamp, id) remain.
C13_AsStated ==
    [][(reply'.op = "retention" /\ Len(db.rows) > maxRows)
       => db'.rows = MostRecent(db.rows, maxRows)]_vars

\* C13, amended: after a retention sweep with more than maxRows rows present
\* that are not older than the retention cutoff, exactly the maxRows most recent
\* rows by (timestamp, id) remain.
C13_RetentionOrder ==
    [][(reply'.op = "retention" /\ Len(NotAgedOut(db.rows)) > maxRows)
       => /\ db'.rows = MostRecent(db.rows, maxRows)
          /\ Len(db'.rows) = maxRows]_vars

\* A sweep deleted by count and left maxRows rows, among them a row inserted
\* before, and stamped later than, a row it deleted.
C13_Witness ==
    /\ reply.op = "retention"
    /\ reply.q >= 1
    /\ Len(db.rows) = maxRows
    /\ \E i \in DOMAIN db.rows : db.rows[i].id < db.nextId - maxRows

\* C14 (retention post-condition): a successful retention run deletes every row
\* older than the cutoff and then, only if more than maxRows rows remain, the
\* oldest excess by (timestamp, id): right after the run no row is older than the
\* cutoff, at most maxRows rows remain, and every other row is untouched.
C14_RetentionPostCondition ==
    [][(reply'.op = "retention")
       => LET fresh == NotAgedOut(db.rows)
          IN  /\ \A i \in DOMAIN db'.rows : db'.rows[i].row.ts >= now - retentionMs
              /\ Len(db'.rows) <= maxRows
              /\ reply'.n = Len(db.rows) - Len(fresh)
              /\ reply'.q = IF Len(fresh) > maxRows THEN Len(fresh) - maxRows ELSE 0
              /\ db'.rows = MostRecent(fresh, maxRows)
              /\ Len(fresh) <= maxRows => db'.rows = fresh
              /\ db'.nextId = db.nextId]_vars

\* A run deleted rows by age, found no excess, and left the other rows in place.
C14_Witness ==
    /\ reply.op = "retention"
    /\ reply.n >= 1
    /\ reply.q = 0
    /\ Len(db.rows) >= 1
    /\ lastRetentionError = NULL
    /\ lastSuccessfulRetentionAtMs = now

\* SecretPayload as it has to be held: the values under Email, PASSWORD and
\* token replaced by the marker, safe and n as they were sent.
ExpectedRedactedPayload ==
    JObject(<<"Email", "nested", "list">>,
            <<JString("[REDACTED]"),
              JObject(<<"PASSWORD", "safe">>, <<JString("[REDACTED]"), JString("ok")>>),
              JArray(<<JObject(<<"token", "n">>, <<JString("[REDACTED]"), JNumber(5)>>)>>)>>)

ExpectedRedactedJson ==
    <<"{", "Email", ":", "[REDACTED]", ",", "nested", ":",
      "{", "PASSWORD", ":", "[REDACTED]", ",", "safe", ":", "ok", "}", ",",
      "list", ":", "[", "{", "token", ":", "[REDACTED]", ",", "n", ":", "5", "}", "]", "}">>

\* No object of the value, at any depth, holds anything but the marker under a
\* key of the redaction set.
RECURSIVE NoSecretLeft(_)
NoSecretLeft(value) ==
    \A i \in DOMAIN value.kids :
        IF value.t = "object"
              /\ value.keys[i] \in {"email", "Email", "token", "authorization",
                                    "password", "PASSWORD"}
        THEN value.kids[i] = JString("[REDACTED]")
        ELSE NoSecretLeft(value.kids[i])

\* C15 (redaction before buffering and persistence): every queued event and
\* every stored row holds its payload with the value of every key of the
\* redaction set (compared without case) replaced by "[REDACTED]" at every depth,
\* through objects and arrays, and every other value as it was sent.
C15_RedactedEverywhere ==
    /\ \A i \in DOMAIN queue :
          /\ NoSecretLeft(queue[i].payload)
          /\ queue[i].payload \in {JUndefined, ExpectedRedactedPayload}
    /\ \A i \in DOMAIN db.rows :
          /\ db.rows[i].row.payloadJson \in {<<>>, ExpectedRedactedJson}
          /\ \A k \in DOMAIN db.rows[i].row.payloadJson :
                db.rows[i].row.payloadJson[k] \notin {"a@b.com", "x", "t"}

\* An event sent with secrets is queued, and another one is stored, both redacted.
C15_Witness ==
    /\ \E i \in DOMAIN queue : queue[i].payload = ExpectedRedactedPayload
    /\ \E i \in DOMAIN db.rows : db.rows[i].row.payloadJson = ExpectedRedactedJson

\* C16 (lifecycle monotonicity): the values lifecycleState is assigned, in order,
\* are a prefix of running, stopping, stopped, so that no assignment moves
\* backwards, stopped is last, and stopping always lies between running and
\* stopped; stopped is only set by stopInternal (stop() was called and its promise
\* is resolved, the store is closed), never while only beginShutdown() has run.
C16_LifecycleMonotonicity ==
    /\ lifecycleHistory \in {<<"running">>, <<"running", "stopping">>,
                             <<"running", "stopping", "stopped">>}
    /\ lifecycleState = lifecycleHistory[Len(lifecycleHistory)]
    /\ lifecycleState = "stopped"
          => stopPromise = "resolved" /\ stopPc = "done" /\ ~db.open
                /\ shutdownStartedAtMs # NULL
    /\ stopPromise = "null" => lifecycleState # "stopped"

\* The runtime was stopped by stop() without server.close() (the shutdown began
\* and the drain deadline was set at the epoch), and a later POST /ingest was
\* refused.
C16_Witness ==
    /\ lifecycleState = "stopped"
    /\ closePromise = NULL
    /\ shutdownStartedAtMs = 0
    /\ deadline = shutdownTimeoutMs
    /\ stopInternalRuns = 1
    /\ reply.op = "ingest" /\ reply.status = 503

\* C17 (forced-drop accounting): the step that ends stopInternal with k entries
\* queued empties the queue, adds k to shutdownDroppedEvents and to droppedEvents,
\* writes none of the k entries to the store and closes the store; with k > 0 the
\* drain deadline has been reached; no other step changes shutdownDroppedEvents.
C17_ForcedDropAccounting ==
    [][LET k == Len(queue)
       IN  /\ (stopPc' = "done" /\ stopPc # "done")
                => /\ queue' = <<>>
                   /\ stats'.shutdownDroppedEvents = stats.shutdownDroppedEvents + k
                   /\ stats'.droppedEvents = stats.droppedEvents + k
                   /\ db'.rows = db.rows /\ persisted' = persisted
                   /\ ~db'.open /\ dbCloseCalls' = dbCloseCalls + 1
                   /\ k > 0 => now >= deadline'
           /\ stats'.shutdownDroppedEvents # stats.shutdownDroppedEvents
                => stopPc' = "done" /\ stopPc # "done" /\ k > 0]_vars

\* A drain whose flush failed ended at its deadline with an entry queued, after
\* an earlier entry had been written.
C17_Witness ==
    /\ stopPc = "done"
    /\ stats.shutdownDroppedEvents = 1
    /\ stats.droppedEvents = 1
    /\ Len(db.rows) >= 1
    /\ stats.flushFailures >= 1
    /\ queue = <<>>
    /\ ~db.open
    /\ now >= deadline

\* A store write of some flush has thrown.
SomeWriteFailed == failedBatch # {}

\* C18 (every accepted event is eventually persisted when nothing fails): while
\* the collector stays running, the event with admission ordinal seq, once
\* accepted, is eventually written to the store, unless a store write has failed
\* or an event has been evicted from the full queue; and flushFailures stays 0 as
\* long as no store write has failed.
C18_EventuallyPersisted ==
    /\ \A seq \in 1..MaxEvents :
          (stats.acceptedEvents >= seq)
              ~> (seq \in persisted \/ SomeWriteFailed \/ stats.droppedEvents > 0)
    /\ [](~SomeWriteFailed => stats.flushFailures = 0)
    /\ [](lifecycleState = "running")

\* Every event the bound allows has been accepted and written, with no failure
\* and no eviction.
C18_Witness ==
    /\ lifecycleState = "running"
    /\ stats.acceptedEvents = MaxEvents
    /\ persisted = 1..MaxEvents
    /\ stats.flushFailures = 0
    /\ stats.droppedEvents = 0
    /\ queue = <<>>

\* The defaults, as documented.
DocumentedDefault ==
    [port |-> 8787, retentionHours |-> 24, maxRows |-> 200000, flushIntervalMs |-> 250,
     flushBatchSize |-> 200, flushQueueThreshold |-> 200, maxQueueSize |-> 50000,
     retentionIntervalMs |-> 60000, shutdownTimeoutMs |-> 5000]

\* The positive integer an environment value parses to, 0 if it parses to none.
ParsesToPositive(envValue) ==
    CASE envValue = Str(<<"1", "2">>) -> 12
      [] envValue = Str(<<"1", "2", "a", "b", "c">>) -> 12
      [] envValue = Str(<<"1", ".", "5">>) -> 1
      [] envValue = Str(<<" ", "4", "2">>) -> 42
      [] envValue = Str(<<"+", "3">>) -> 3
      [] OTHER -> 0

\* The redaction keys the inputs of the model resolve to.
ExpectedRedactKeys(keys, envKeys) ==
    IF keys.defined
    THEN IF keys.list = <<>> THEN <<>>
         ELSE << <<"e", "m", "a", "i", "l">>, <<"k", "e", "y">> >>
    ELSE IF envKeys = Undefined
    THEN << <<"e", "m", "a", "i", "l">>, <<"t", "o", "k", "e", "n">>,
            <<"a", "u", "t", "h", "o", "r", "i", "z", "a", "t", "i", "o", "n">>,
            <<"p", "a", "s", "s", "w", "o", "r", "d">> >>
    ELSE IF envKeys = Str(<<>>) THEN <<>>
    ELSE IF envKeys.chars[1] = " " THEN << <<"a">>, <<"b">> >>
    ELSE << <<"a", "p", "i", "k", "e", "y">>, <<"s", "e", "c", "r", "e", "t">> >>

\* C19 (configuration resolution): a numeric setting resolves to its explicit
\* option when that is a positive integer, else to the positive integer its
\* environment value parses to, else to its documented default; every resolved
\* numeric setting is a positive integer; the redaction keys are the explicit
\* list, else the comma-separated environment value, else the defaults, trimmed,
\* lower-cased and without duplicates.
C19_ConfigurationResolution ==
    resolution.called =>
        LET r == resolution
            explicitIsPositiveInt ==
                r.explicit \in {JNumber(n) : n \in 1..10}
        IN  /\ \A k \in NumericSettings : r.config[k] \in Nat \ {0}
            /\ \A k \in NumericSettings \ {r.setting} :
                  r.config[k] = DocumentedDefault[k]
            /\ r.config[r.setting] =
                  IF explicitIsPositiveInt THEN r.explicit.n
                  ELSE IF ParsesToPositive(r.envValue) > 0
                  THEN ParsesToPositive(r.envValue)
                  ELSE DocumentedDefault[r.setting]
            /\ r.config.redactKeys = ExpectedRedactKeys(r.keys, r.envKeys)

\* The explicit option is no positive integer (1.5) and the environment value
\* " 42" is used; the keys come from " A ,a,,b".
C19_Witness ==
    /\ resolution.called
    /\ resolution.setting = "maxQueueSize"
    /\ resolution.explicit = JHalf(1)
    /\ resolution.envValue = Str(<<" ", "4", "2">>)
    /\ resolution.config.maxQueueSize = 42
    /\ resolution.config.maxRows = 200000
    /\ ~resolution.keys.defined
    /\ resolution.config.redactKeys = << <<"a">>, <<"b">> >>

\* A step that is a call of log on a full queue.
LogOnFullQueue ==
    /\ logger'.logCalls = logger.logCalls + 1
    /\ Len(logger.queue) = loggerMaxQueueSize

\* C20 as stated: once the queue is full, each log call discards the oldest
\* queued event and appends the new one.
C20_AsStated ==
    [][LogOnFullQueue
          => logger'.queue = Append(Tail(logger.queue), logger'.logCalls)]_vars

\* C20 (SDK queue bound): whatever the endpoint answers, the logger's queue never
\* exceeds maxQueueSize; on a full queue a log call with a non-empty name, made
\* before shutdown(), discards the oldest queued event and appends the new one,
\* and a log call with an empty name or after shutdown() leaves the queue as it is.
C20_SdkQueueBound ==
    /\ [](Len(logger.queue) <= loggerMaxQueueSize)
    /\ [][LogOnFullQueue
             => logger'.queue =
                   IF logger'.name # "" /\ ~logger.stopped
                   THEN Append(Tail(logger.queue), logger'.logCalls)
                   ELSE logger.queue]_vars

\* The endpoint has refused every batch, the queue is full, and the last log call
\* discarded the oldest event.
C20_Witness ==
    /\ logger.refused /\ ~logger.accepted
    /\ logger.call = "log" /\ logger.name # ""
    /\ ~logger.stopped
    /\ Len(logger.queue) = loggerMaxQueueSize
    /\ logger.queue[1] > 1
    /\ logger.queue[Len(logger.queue)] = logger.logCalls

\* A step that shortens the queue and is neither an enqueue (eviction) nor the
\* end of stopInternal (forced drop): a flush pass that removed entries.
FlushRemoved ==
    /\ Len(queue') < Len(queue)
    /\ reply'.op # "ingest"
    /\ ~(stopPc' = "done" /\ stopPc # "done")

\* C21 (flush removes entries only after their batch is written): a flush pass
\* takes from the queue exactly the first k entries, which are the entries it
\* appended to the store in this pass, in order; k covers whole batches only:
\* the whole queue when no insert threw, a multiple of flushBatchSize when one
\* did; and the store grows in no step but by entries leaving the queue.
C21_RemovedOnlyAfterWritten ==
    [][/\ FlushRemoved
          => \E k \in 1..Len(queue) :
                /\ queue' = SubSeq(queue, k + 1, Len(queue))
                /\ Len(db'.rows) = Len(db.rows) + k
                /\ \A i \in 1..k :
                      /\ db'.rows[Len(db.rows) + i].row.seq = queue[i].seq
                      /\ db'.rows[Len(db.rows) + i].row.name = queue[i].name
                /\ IF FlushFailed
                   THEN k % flushBatchSize = 0
                   ELSE k = Len(queue)
       /\ db'.nextId > db.nextId => FlushRemoved]_vars

\* A pass wrote a batch and then failed: what it wrote has left the queue, the
\* rest is still queued.
C21_Witness ==
    /\ stats.flushFailures = 1
    /\ lastFlushError # NULL
    /\ lastSuccessfulFlushAtMs # NULL
    /\ Len(db.rows) >= 1
    /\ Len(queue) >= 1
    /\ RowSeqs(db) \cap Seqs(queue) = {}
    /\ failedBatch \subseteq Seqs(queue)

\* C22 (flush failure accounting): a pass in which a batch write throws adds
\* exactly 1 to flushFailures and changes no other counter, sets lastFlushError
\* to a summary stamped with the current time, clears the in-progress flag and
\* ends: the k entries of the batches written before the failure are in the
\* store and out of the queue, the failing batch and everything behind it stay
\* queued in their order; and flushFailures changes in no other way.
C22_FlushFailureAccounting ==
    [][/\ FlushFailed
          => /\ stats' = [stats EXCEPT !.flushFailures = @ + 1]
             /\ lastFlushError' # NULL
             /\ lastFlushError' = now
             /\ flushInProgress' = FALSE
             /\ \E k \in 0..(Len(queue) - 1) :
                   /\ k % flushBatchSize = 0
                   /\ queue' = SubSeq(queue, k + 1, Len(queue))
                   /\ Len(db'.rows) = Len(db.rows) + k
                   /\ \A i \in 1..k :
                         db'.rows[Len(db.rows) + i].row.seq = queue[i].seq
                   /\ SubSeq(db'.rows, 1, Len(db.rows)) = db.rows
                   /\ failedBatch' = Seqs(flushBatch(queue'))
       /\ stats'.flushFailures # stats.flushFailures => FlushFailed]_vars

\* A pass wrote its first batch and failed on the second one at the same time
\* of the clock: one row stored, the failed entry at the head of the queue.
C22_Witness ==
    /\ stats.flushFailures = 1
    /\ ~flushInProgress
    /\ lastFlushError = lastSuccessfulFlushAtMs
    /\ lastFlushError # NULL
    /\ Len(db.rows) = 1
    /\ Len(queue) = 1
    /\ failedBatch = {queue[1].seq}
    /\ db.rows[1].row.seq < queue[1].seq

TickOnQueuedEvents ==
    FlushTick /\ Len(queue) > 0 /\ lifecycleState # "stopped"

\* The sentence of C24 about the timer as it is written: after a failed pass
\* the flush timer is armed as long as the lifecycle state is not stopped.
C24_AsStated ==
    (stats.flushFailures > 0 /\ lifecycleState # "stopped") => flushTimer

\* C24 (persistence errors are retried), with the timer armed until stop() is
\* called: after a failed pass the flush timer is armed as long as stop() has
\* not been called; a tick on queued events attempts them again: it either
\* fails on a batch of the queue or writes the whole queue, the entries of the
\* failed batch that are still queued included; and once writes succeed (the
\* faults are used up), a queue left behind by a failed pass is eventually
\* empty unless the collector leaves the running state.
C24_ErrorsRetried ==
    /\ []((stats.flushFailures > 0 /\ stopPromise = "null") => flushTimer)
    /\ [][TickOnQueuedEvents
            => \/ FlushFailed /\ failedBatch' \subseteq Seqs(queue)
               \/ /\ Len(queue') = 0
                  /\ Seqs(queue) \subseteq RowSeqs(db')
                  /\ lastFlushError' = NULL]_vars
    /\ (stats.flushFailures > 0 /\ Len(queue) > 0)
          ~> (Len(queue) = 0 \/ lifecycleState # "running")

\* A pass failed, the collector kept running with its timer armed, and a later
\* pass wrote the batch that had failed.
C24_Witness ==
    /\ stats.flushFailures = 1
    /\ lifecycleState = "running"
    /\ flushTimer
    /\ failedBatch # {}
    /\ failedBatch \subseteq RowSeqs(db)
    /\ Len(queue) = 0

\* The promise of server.close() is the one of app.close(), which settles when
\* the onClose hook has awaited runtime.stop().
closeResolved == closePromise # NULL /\ stopPromise = "resolved"

\* A round of the drain loop begins: stopInternal calls flush and awaits it.
DrainRoundBegins ==
    (Stop \/ StopAfterFlush \/ StopWake) /\ stopPc' = "afterFlush"

\* C25 (shutdown terminates): once server.close() has been called, and once
\* stop() has been called, the lifecycle state eventually is stopped and the
\* promise resolved; a round of the drain loop begins only with entries queued
\* and before the deadline now + shutdownTimeoutMs taken when stopInternal
\* began, and stopInternal ends only with an empty queue or at the deadline.
C25_ShutdownTerminates ==
    /\ (closePromise # NULL \/ stopPromise # "null")
          ~> (stopPromise = "resolved" /\ lifecycleState = "stopped")
    /\ [](stopPromise = "resolved" => (closePromise # NULL => closeResolved))
    /\ [][/\ DrainRoundBegins => (Len(queue) > 0 /\ now < deadline')
          /\ (stopPc' = "done" /\ stopPc # "done")
                => (Len(queue) = 0 \/ now >= deadline')
          /\ stopPc # "idle" => deadline' = deadline]_vars
    /\ [](stopPc = "idle" \/ deadline <= shutdownTimeoutMs)

\* server.close() was called and has resolved although the only write of the
\* drain failed and the queue did not empty: the deadline ended the loop and
\* the entry was dropped.
C25_Witness ==
    /\ closeResolved
    /\ lifecycleState = "stopped"
    /\ failedSinceShutdown
    /\ stats.shutdownDroppedEvents > 0
    /\ now >= deadline
    /\ Len(db.rows) = 0

RetentionFailed == stats'.retentionFailures = stats.retentionFailures + 1

\* C26 (retention failure isolation): a retention run that throws adds exactly
\* 1 to retentionFailures and changes no other counter, records
\* lastRetentionError with the current time, and leaves
\* lastSuccessfulRetentionAtMs, the queue, the lifecycle state, the flush
\* bookkeeping and both timers as they were, the retention timer armed; and
\* retentionFailures changes in no other way.
C26_RetentionFailureIsolation ==
    [][/\ RetentionFailed
          => /\ stats' = [stats EXCEPT !.retentionFailures = @ + 1]
             /\ lastRetentionError' # NULL
             /\ lastRetentionError' = now
             /\ retentionTimer /\ retentionTimer'
             /\ UNCHANGED <<lastSuccessfulRetentionAtMs, queue, lifecycleState,
                            lastFlushError, lastSuccessfulFlushAtMs,
                            flushInProgress, flushTimer, flushScheduled>>
       /\ stats'.retentionFailures # stats.retentionFailures
          => RetentionFailed]_vars

\* A retention run threw after an earlier one had succeeded, with entries
\* queued on a running collector: the earlier success is still recorded and
\* the timer is armed.
C26_Witness ==
    /\ stats.retentionFailures = 1
    /\ lastRetentionError # NULL
    /\ lastSuccessfulRetentionAtMs # NULL
    /\ retentionTimer
    /\ Len(queue) > 0
    /\ lifecycleState = "running"

\* C27 (beginShutdown is idempotent): shutdownStartedAtMs is non-null exactly
\* when the lifecycle state is not running; the step that leaves running
\* passes through stopping and stamps the current time; once written,
\* shutdownStartedAtMs never changes, whoever calls beginShutdown again
\* (directly, or through close or stop); and a direct call outside running
\* changes nothing in the runtime or the store.
C27_BeginShutdownIdempotent ==
    /\ []((shutdownStartedAtMs # NULL) <=> (lifecycleState # "running"))
    /\ [][/\ lifecycleState = "running" /\ lifecycleState' # "running"
             => /\ shutdownStartedAtMs' = now
                /\ lifecycleHistory'[Len(lifecycleHistory) + 1] = "stopping"
          /\ shutdownStartedAtMs # NULL
             => shutdownStartedAtMs' = shutdownStartedAtMs
          /\ BeginShutdownCall /\ lifecycleState # "running"
             => UNCHANGED <<runtimeVars, loopVars, lifecycleHistory>>]_vars

\* close() and stop() have both been called, each performing beginShutdown,
\* and time has passed since: the stamp is still the one of the first call.
C27_Witness ==
    /\ closePromise # NULL
    /\ stopPromise # "null"
    /\ lifecycleState = "stopping"
    /\ shutdownStartedAtMs # NULL
    /\ shutdownStartedAtMs < now

\* A step in which a retention run took place (completed or failed).
RetentionRan ==
    \/ reply'.op = "retention"
    \/ RetentionFailed
    \/ lastSuccessfulRetentionAtMs' # lastSuccessfulRetentionAtMs
    \/ lastRetentionError' # lastRetentionError

\* A step in which a flush pass wrote or failed.
FlushRan == db'.nextId > db.nextId \/ FlushFailed

\* C28 (timer cancellation): both timers are armed exactly as long as stop()
\* has not been called, so beginShutdown alone does not cancel them; they
\* change only in the step that starts stopInternal, which cancels both before
\* its drain loop, and a cancelled timer is never armed again (each is
\* cancelled once); with the timers cancelled no retention run takes place and
\* the only flush passes are the rounds of the drain loop.
C28_TimerCancellation ==
    /\ [](/\ flushTimer <=> (stopPromise = "null")
          /\ retentionTimer <=> (stopPromise = "null")
          /\ (lifecycleState = "running") => (flushTimer /\ retentionTimer))
    /\ [][/\ (flushTimer' # flushTimer \/ retentionTimer' # retentionTimer)
             => /\ flushTimer /\ retentionTimer
                /\ ~flushTimer' /\ ~retentionTimer'
                /\ stopInternalRuns = 0 /\ stopInternalRuns' = 1
                /\ stopPc = "idle" /\ stopPc' \in {"afterFlush", "done"}
          /\ ~flushTimer => ~flushTimer'
          /\ ~retentionTimer => ~retentionTimer'
          /\ RetentionRan => (retentionTimer /\ retentionTimer')
          /\ (FlushRan /\ ~flushTimer') => DrainRoundBegins]_vars

\* Both timers are cancelled and the drain sleeps with an entry queued while
\* time passes: nothing but the drain loop will flush it.
C28_Witness ==
    /\ ~flushTimer
    /\ ~retentionTimer
    /\ stopInternalRuns = 1
    /\ stopPc = "sleeping"
    /\ Len(queue) > 0
    /\ now > sleepFrom

\* A step in which a retention run completed.
RetentionSucceeded == reply'.op = "retention"

\* C29 (flush success bookkeeping), as the relation every step maintains from
\* a start with all four fields null: a step whose last batch write succeeded
\* leaves lastFlushError null, a step whose last batch write failed leaves it
\* non-null, every step that wrote a batch stamps lastSuccessfulFlushAtMs with
\* the current time, and a step without a batch write changes neither; so
\* lastFlushError is non-null exactly when the most recent attempt failed, and
\* lastSuccessfulFlushAtMs is null exactly when the store has never been
\* written (no id handed out).  The same for retention runs with
\* lastRetentionError and lastSuccessfulRetentionAtMs.
C29_SuccessBookkeeping ==
    /\ [](/\ (lastSuccessfulFlushAtMs = NULL) <=> (db.nextId = 1)
          /\ (lastSuccessfulFlushAtMs = NULL) <=> (persisted = {})
          /\ (lastFlushError # NULL) => (stats.flushFailures > 0)
          /\ (lastRetentionError # NULL) => (stats.retentionFailures > 0)
          /\ (stats.flushFailures = 0 /\ db.nextId = 1)
                => (lastFlushError = NULL /\ lastSuccessfulFlushAtMs = NULL)
          /\ (stats.retentionFailures = 0 /\ lastSuccessfulRetentionAtMs = NULL)
                => lastRetentionError = NULL)
    /\ [][/\ FlushFailed => lastFlushError' # NULL
          /\ FlushSucceeded => lastFlushError' = NULL
          /\ db'.nextId > db.nextId => lastSuccessfulFlushAtMs' = now
          /\ ~FlushRan => UNCHANGED <<lastFlushError, lastSuccessfulFlushAtMs>>
          /\ RetentionFailed
                => /\ lastRetentionError' # NULL
                   /\ UNCHANGED lastSuccessfulRetentionAtMs
          /\ RetentionSucceeded
                => /\ lastRetentionError' = NULL
                   /\ lastSuccessfulRetentionAtMs' = now
          /\ ~(RetentionFailed \/ RetentionSucceeded)
                => UNCHANGED <<lastRetentionError, lastSuccessfulRetentionAtMs>>]_vars

\* A batch write failed and a later one succeeded, and a retention run
\* completed: the flush error is cleared again and both successes are stamped.
C29_Witness ==
    /\ stats.flushFailures = 1
    /\ lastFlushError = NULL
    /\ lastSuccessfulFlushAtMs # NULL
    /\ lastSuccessfulRetentionAtMs # NULL
    /\ lastRetentionError = NULL
    /\ db.nextId > 1

\* A step that is a call of enqueue: through POST /ingest (answered 202, or 500
\* when the handler failed after the call), or directly.
EnqueueCalled ==
    \/ reply'.op = "ingest" /\ reply'.status \in {202, 500}
    \/ reply'.op = "enqueue"

\* C30 (ingest never writes to the store inline): a call of enqueue, like every
\* request to POST /ingest, leaves the store and the flush bookkeeping as they
\* were; a call on a running collector leaves a flush scheduled exactly when
\* the queue it leaves has reached flushQueueThreshold, a refused call
\* schedules nothing, and nothing else ever schedules one; the scheduled flush
\* is the very next step, after the call has returned.
C30_NoInlineStoreWrite ==
    [][/\ (EnqueueCalled \/ reply'.op = "ingest")
          => /\ db' = db
             /\ persisted' = persisted
             /\ UNCHANGED <<lastSuccessfulFlushAtMs, lastFlushError,
                            flushInProgress, failedBatch>>
             /\ stats'.flushFailures = stats.flushFailures
             /\ ~flushScheduled
       /\ EnqueueCalled
          => flushScheduled' = (/\ lifecycleState = "running"
                                /\ Len(queue') >= flushQueueThreshold)
       /\ ~EnqueueCalled => ~flushScheduled'
       /\ flushScheduled => FlushMicrotask]_vars

\* POST /ingest has just been answered 202 with the queue at the threshold:
\* a flush is scheduled and nothing has been written to the store.
C30_Witness ==
    /\ reply.op = "ingest"
    /\ reply.status = 202
    /\ flushScheduled
    /\ Len(queue) >= flushQueueThreshold
    /\ Len(db.rows) = 0
    /\ persisted = {}

\* The nodes a node refers to, and the nodes reachable from a set of nodes.
succs(heap, n) == {heap[n].kids[i] : i \in DOMAIN heap[n].kids} \ {0}
RECURSIVE closure(_, _, _)
closure(heap, S, k) ==
    IF k = 0 THEN S
    ELSE closure(heap, S \cup UNION {succs(heap, n) : n \in S}, k - 1)
reach(heap, n) == closure(heap, succs(heap, n), MaxNodes)

\* The payload graph (from node 1) contains a node that contains itself,
\* directly or through other nodes.
Cyclic(heap) == \E n \in {1} \cup reach(heap, 1) : n \in reach(heap, n)

\* C31 (redaction terminates on self-referential payloads): no call of
\* redactValue exhausts the call stack, whatever the payload graph.
C31_RedactionTerminates == redaction.pc # "overflow"

\* The value an acyclic payload graph denotes: what deep equality compares.
RECURSIVE unfold(_, _)
unfold(heap, ref) ==
    IF ref = 0
    THEN Primitive
    ELSE IF heap[ref].t = "array"
    THEN JArray([i \in DOMAIN heap[ref].kids |-> unfold(heap, heap[ref].kids[i])])
    ELSE JObject(heap[ref].keys,
                 [i \in DOMAIN heap[ref].kids |-> unfold(heap, heap[ref].kids[i])])

\* No object of the payload graph has a key of the key set, at any depth.
NoMatchingKey(heap, redactKeys) ==
    \A n \in {1} \cup reach(heap, 1) :
        \A i \in DOMAIN heap[n].keys : toLowerCase(heap[n].keys[i]) \notin redactKeys

\* The result is deep-equal to the payload passed; a finite result is never
\* deep-equal to a graph that contains itself.
DeepEqualToInput ==
    /\ ~Cyclic(redaction.heap)
    /\ redaction.result.payload = unfold(redaction.heap, 1)

\* A call of redactEventPayload that traversed an object or array payload.
Traversed ==
    /\ redaction.pc = "done"
    /\ redaction.payload = "node"
    /\ redaction.redactKeys # {}

\* An absent payload or an empty key set returns the same event, so does a
\* primitive payload; and redacting the result again changes nothing.
SameEventAndIdempotent ==
    /\ (redaction.pc = "done"
          /\ (redaction.payload = "absent" \/ redaction.redactKeys = {}))
          => redaction.result.same
    /\ (redaction.pc = "done" /\ redaction.payload = "leaf" /\ redaction.redactKeys # {})
          => (redaction.result.same /\ redaction.result.payload = Primitive)
    /\ Traversed
          => /\ ~redaction.result.same
             /\ redactValue(redaction.result.payload, redaction.redactKeys)
                   = redaction.result.payload

\* C32 as it is written: every payload without a matching key comes back
\* deep-equal to the input.
C32_AsStated ==
    /\ SameEventAndIdempotent
    /\ (Traversed /\ NoMatchingKey(redaction.heap, redaction.redactKeys))
          => DeepEqualToInput

\* C32 (redaction is the identity on non-matching data), for payloads that do
\* not contain themselves: such a payload without a matching key at any depth
\* comes back deep-equal to the input; an absent payload or an empty key set
\* gives the same event; redacting a result again gives the same result.
C32_IdentityOnNonMatching ==
    /\ SameEventAndIdempotent
    /\ (Traversed /\ NoMatchingKey(redaction.heap, redaction.redactKeys)
          /\ ~Cyclic(redaction.heap))
          => DeepEqualToInput

\* An object with two entries, one of them an array of the heap, and no
\* matching key anywhere has been redacted: the result equals the input.
C32_Witness ==
    /\ Traversed
    /\ NoMatchingKey(redaction.heap, redaction.redactKeys)
    /\ redaction.heap[1].t = "object"
    /\ Len(redaction.heap[1].kids) = 2
    /\ 2 \in succs(redaction.heap, 1)
    /\ Len(redaction.heap[2].kids) > 0
    /\ DeepEqualToInput

LoggerQueued(lg) == {lg.queue[i] : i \in DOMAIN lg.queue}

\* sendBatch returned false: a send was in flight, the pass is over and no
\* batch was accepted.
SendRefused ==
    /\ logger.inFlight # NULL
    /\ logger'.call = "sendBatch"
    /\ logger'.delivered = logger.delivered

\* C33 (SDK flush keeps unsent events): when a batch is refused the pass stops
\* and leaves the queue as it is; and an event that was queued at a refusal
\* leaves the queue later only in a batch the collector accepted (a later flush
\* sent it) or through the drop-oldest step of a log call.
C33_FlushKeepsUnsentEvents ==
    [][/\ SendRefused
          => /\ logger'.queue = logger.queue
             /\ ~logger'.flushInProgress
             /\ logger'.inFlight = NULL
       /\ \A e \in logger.kept :
             (e \in LoggerQueued(logger) /\ e \notin LoggerQueued(logger'))
                => (e \in logger'.delivered \/ logger'.call = "log")]_vars

\* The events the step took from the head of the queue when sendBatch
\* returned true.
SplicedOff ==
    IF logger'.call = "sendBatch" /\ Len(logger'.queue) < Len(logger.queue)
    THEN {logger.queue[i] : i \in 1..(Len(logger.queue) - Len(logger'.queue))}
    ELSE {}

\* C40 (SDK flush never discards an unsent event): every event flush removes
\* from the queue was part of a batch the collector accepted.
C40_FlushRemovesOnlySent ==
    [][SplicedOff \subseteq logger'.delivered]_vars

\* The host delivered an event of the given type in this step.
AppEvent(type) ==
    /\ adapter.attached
    /\ adapter'.events = adapter.events + 1
    /\ adapter'.event.type = type

\* C34 (RN adapter detach stops flushing): after detach() no change event and
\* no memoryWarning event calls logger.flush, whatever the host; and a second
\* detach() changes nothing.
C34_DetachStopsFlushing ==
    [][/\ (adapter.attached /\ adapter.detached)
          => adapter'.flushCalls = adapter.flushCalls
       /\ (adapter.attached /\ adapter.detached /\ adapter'.event.type = "detach")
          => /\ adapter'.changeListening = adapter.changeListening
             /\ adapter'.memoryListening = adapter.memoryListening
             /\ adapter'.detached]_vars

\* The flush-state set as configured: the default, or the states listed.
ConfiguredFlushStates ==
    IF adapter.flushOnStates.defined
    THEN {adapter.flushOnStates.list[i] : i \in DOMAIN adapter.flushOnStates.list}
    ELSE {"background", "inactive"}

\* C35 (RN adapter flush trigger): while attached and not detached, a change
\* event calls logger.flush exactly once when its state is in the configured
\* flush-state set and differs from the state observed before (the host's
\* currentState at attach, then the state of the last event), and not at all
\* otherwise; the state of the event becomes the observed one.
C35_FlushTrigger ==
    [][(AppEvent("change") /\ ~adapter.detached)
          => /\ adapter'.flushCalls =
                   adapter.flushCalls
                      + (IF /\ adapter'.event.state \in ConfiguredFlushStates
                            /\ adapter'.event.state # adapter.lastState
                         THEN 1 ELSE 0)
             /\ adapter'.lastState = adapter'.event.state]_vars

\* Three change events have been delivered to an attached adapter with the
\* default states, the last one repeating a flush state: two of them flushed.
C35_Witness ==
    /\ adapter.attached
    /\ ~adapter.detached
    /\ ~adapter.flushOnStates.defined
    /\ adapter.events = 3
    /\ adapter.event.type = "change"
    /\ adapter.lastState = "background"
    /\ adapter.flushCalls = 1

\* The rows this runtime has inserted: the store numbers them from 1.
RowsInserted == db.nextId - 1

\* C36 (event conservation): in every state every accepted event is in exactly
\* one place: acceptedEvents = rows inserted + droppedEvents + queue length
\* (rows that retention deleted later still count as inserted).
C36_EventConservation ==
    stats.acceptedEvents = RowsInserted + stats.droppedEvents + Len(queue)

\* A batch of three on the empty queue evicted one event, a pass wrote one
\* batch and failed on the next: one event each is written, dropped and queued.
C36_Witness ==
    /\ stats.acceptedEvents = 3
    /\ RowsInserted = 1
    /\ stats.droppedEvents = 1
    /\ Len(queue) = 1
    /\ stats.flushFailures = 1

\* C37 (no duplicate persistence): whatever fails and is retried, the store
\* has been handed each accepted event at most once: the rows inserted are as
\* many as the distinct events ever written, no row of the store repeats an
\* event or an id, an event that has been written is no longer queued, and a
\* step inserts exactly the events that leave the queue in it, none of them
\* written before.
C37_NoDuplicatePersistence ==
    /\ [](/\ Cardinality(persisted) = RowsInserted
          /\ \A i, j \in DOMAIN db.rows :
                (db.rows[i].row.seq = db.rows[j].row.seq \/ db.rows[i].id = db.rows[j].id)
                   => i = j
          /\ RowSeqs(db) \subseteq persisted
          /\ persisted \cap Seqs(queue) = {})
    /\ [][db'.nextId # db.nextId
             => /\ persisted' \ persisted = Seqs(queue) \ Seqs(queue')
                /\ Cardinality(persisted' \ persisted) = db'.nextId - db.nextId
                /\ persisted \subseteq persisted']_vars

\* A pass wrote one batch and failed on the next; the drain of the close
\* sequence wrote the batch that had failed: two rows, two events.
C37_Witness ==
    /\ stats.flushFailures = 1
    /\ failedBatch # {}
    /\ failedBatch \subseteq persisted
    /\ Cardinality(persisted) = 2
    /\ RowsInserted = 2
    /\ lifecycleState = "stopped"

\* C38 (no store write after close): the store is closed exactly when the
\* lifecycle state is stopped; in that state both timers are cancelled and no
\* flush is pending; and no step taken with the store closed issues an insert
\* or a retention delete: the store, the set of events written, the failure
\* counters and the flush and retention bookkeeping stay as they are.
C38_NoStoreWriteAfterClose ==
    /\ [](/\ ~db.open <=> lifecycleState = "stopped"
          /\ ~db.open => (~flushTimer /\ ~retentionTimer /\ ~flushScheduled
                            /\ stopPc = "done" /\ dbCloseCalls = 1))
    /\ [][~db.open
             => /\ db' = db
                /\ persisted' = persisted
                /\ ~FlushRan
                /\ ~RetentionRan
                /\ lastSuccessfulFlushAtMs' = lastSuccessfulFlushAtMs
                /\ lastFlushError' = lastFlushError
                /\ ~flushScheduled']_vars

\* The store was written and swept while open, the close sequence dropped an
\* event it could not write, and enqueue has been called since the store was
\* closed.
C38_Witness ==
    /\ ~db.open
    /\ Len(db.rows) >= 1
    /\ lastSuccessfulRetentionAtMs # NULL
    /\ stats.flushFailures = 1
    /\ stats.shutdownDroppedEvents >= 1
    /\ reply.op = "enqueue"

\* C39 (stopped is quiescent): in the stopped state the queue is empty, both
\* timers are cancelled and shutdownDroppedEvents <= droppedEvents; and no
\* step taken in the stopped state changes the queue, a counter or the state.
C39_StoppedIsQuiescent ==
    /\ [](lifecycleState = "stopped"
             => /\ queue = <<>>
                /\ ~flushTimer
                /\ ~retentionTimer
                /\ stats.shutdownDroppedEvents <= stats.droppedEvents)
    /\ [][lifecycleState = "stopped"
             => /\ queue' = queue
                /\ stats' = stats
                /\ lifecycleState' = "stopped"]_vars

\* Two events were written, the drain failed on the one queued after them and
\* dropped it at its deadline, and a request has been refused since.
C39_Witness ==
    /\ lifecycleState = "stopped"
    /\ stats.shutdownDroppedEvents = 1
    /\ stats.droppedEvents = 1
    /\ stats.acceptedEvents = 3
    /\ RowsInserted = 2
    /\ reply.op = "ingest"
    /\ reply.status = 503

====
